---- MODULE Spec2Model ----
(***************************************************************************)
(* Black Rabbit: the panel puzzle engine (src/game/panel_puzzle.ts), the   *)
(* host loop that drives it (src/main.ts), the seeded case generation      *)
(* pipeline (src/generation/*.ts), the testimonies made from a case        *)
(* (src/game/statements.ts) and the investigation game's store and reducer *)
(* (src/game/game_state.ts, game_reducer.ts, store.ts).                    *)
(*                                                                         *)
(* Panel ids (generatePanelId) are left out: no operation reads them.      *)
(* Display strings (names, descriptions) are left out of the generated     *)
(* case for the same reason; the draws that choose them are kept only as   *)
(* positions in the call order.                                            *)
(***************************************************************************)
EXTENDS Integers, Sequences, FiniteSets, TLC

(***************************************************************************)
(* Bounds of the model.  The source grid is 12 x 6 with rows 6..11 filled  *)
(* and six panel types; the model keeps the same layout on a smaller grid. *)
(***************************************************************************)
GRID_ROWS == 6

GRID_COLS == 4

FirstFilledRow == 3

NumTypes == 3

NumStreams == 3

TargetScore == 100

TimeLimit == 2

MaxDelta == 1

\* The number of calls in a sequence of calls of the exported functions.
MaxCalls == 4

\* Hand-built grids: the number of runs painted, the longest run, the number
\* of bonus tiles placed and the topmost row they are placed in.
MaxRuns == 2

MaxRunLen == 5

MaxBonusTiles == 3

BonusTopRow == 4

maxIterations == 100

PANEL_TYPES == <<"magnifier", "fingerprint", "document", "witness", "key", "flashlight">>

BONUS_TYPES == {"line_h", "line_v", "cross", "blast"}

Rows == 0 .. (GRID_ROWS - 1)

Cols == 0 .. (GRID_COLS - 1)

Types == {PANEL_TYPES[i] : i \in 1 .. NumTypes}

\* An empty cell (null in the source).
null == [type |-> "null", bonus |-> "none", row |-> -1, col |-> -1]

Panel(t, b, r, c) == [type |-> t, bonus |-> b, row |-> r, col |-> c]

Range(s) == {s[i] : i \in 1 .. Len(s)}

RECURSIVE FlattenSeqs(_)
FlattenSeqs(ss) == IF ss = <<>> THEN <<>> ELSE Head(ss) \o FlattenSeqs(Tail(ss))

(***************************************************************************)
(* Math.random() behind randomPanelType(): each call site that draws       *)
(* panels (createPanelPuzzle, applyGravity, generateNextRow) consumes the  *)
(* successive outcomes of one stream; a stream is one of a bounded family  *)
(* of outcome sequences (stream 0 is the constant sequence).               *)
(***************************************************************************)
Streams == 0 .. (NumStreams - 1)

randomPanelType(s, i) ==
    IF s = 0 THEN PANEL_TYPES[1]
    ELSE PANEL_TYPES[((((i + s) * (i + s + 1)) \div 2 + s * i + (i \div 3)) % NumTypes) + 1]

(***************************************************************************)
(* findMatches                                                             *)
(***************************************************************************)
RowLine(grid, r) == [i \in 1 .. GRID_COLS |-> grid[r][i - 1].type]

ColLine(grid, c) == [i \in 1 .. GRID_ROWS |-> grid[i - 1][c].type]

\* The scan of one row or column: `start` is the index at which the current
\* sequence began (0: the sequence is empty), `acc` the runs of 3+ found so
\* far as <<start, length>>.
RECURSIVE ScanLine(_, _, _, _)
ScanLine(line, i, start, acc) ==
    LET flushed == IF start # 0 /\ i - start >= 3
                   THEN Append(acc, <<start, i - start>>) ELSE acc
    IN  IF i > Len(line) THEN flushed
        ELSE IF line[i] # "null" /\ (start = 0 \/ line[i] = line[start])
             THEN ScanLine(line, i + 1, IF start = 0 THEN i ELSE start, acc)
             ELSE ScanLine(line, i + 1, IF line[i] # "null" THEN i ELSE 0, flushed)

RECURSIVE horizontalSequences(_, _)
horizontalSequences(grid, r) ==
    IF r >= GRID_ROWS THEN <<>>
    ELSE LET runs == ScanLine(RowLine(grid, r), 1, 0, <<>>)
         IN  [k \in 1 .. Len(runs) |->
                 [i \in 1 .. runs[k][2] |-> <<r, runs[k][1] + i - 2>>]]
             \o horizontalSequences(grid, r + 1)

RECURSIVE verticalSequences(_, _)
verticalSequences(grid, c) ==
    IF c >= GRID_COLS THEN <<>>
    ELSE LET runs == ScanLine(ColLine(grid, c), 1, 0, <<>>)
         IN  [k \in 1 .. Len(runs) |->
                 [i \in 1 .. runs[k][2] |-> <<runs[k][1] + i - 2, c>>]]
             \o verticalSequences(grid, c + 1)

\* The index of the sequence of ss that holds position p, 0 if none.
SeqOf(ss, p) ==
    IF \E k \in 1 .. Len(ss) : p \in Range(ss[k])
    THEN CHOOSE k \in 1 .. Len(ss) : p \in Range(ss[k])
    ELSE 0

Match(positions, direction, shape, type) ==
    [positions |-> positions, direction |-> direction, shape |-> shape, type |-> type]

\* The merged match of a horizontal and a vertical sequence meeting at key.
IntersectionMatch(grid, hs, vs, key) ==
    LET hStart == hs[1][2]
        hEnd == hs[Len(hs)][2]
        vStart == vs[1][1]
        vEnd == vs[Len(vs)][1]
        isHMiddle == key[2] > hStart /\ key[2] < hEnd
        isVMiddle == key[1] > vStart /\ key[1] < vEnd
    IN  Match(hs \o SelectSeq(vs, LAMBDA p : p \notin Range(hs)), "both",
              IF isHMiddle \/ isVMiddle THEN "T" ELSE "L",
              grid[hs[1][1]][hs[1][2]].type)

\* The loop over positionToSequences.  Its keys come in insertion order: the
\* positions of the horizontal sequences first; a position of a vertical
\* sequence alone never has both entries, so the loop skips it.
RECURSIVE Intersections(_, _, _, _, _, _, _, _)
Intersections(grid, H, V, keys, i, processedH, processedV, acc) ==
    IF i > Len(keys)
    THEN [matches |-> acc, processedH |-> processedH, processedV |-> processedV]
    ELSE LET h == SeqOf(H, keys[i])
             v == SeqOf(V, keys[i])
         IN  IF h # 0 /\ v # 0 /\ h \notin processedH /\ v \notin processedV
             THEN Intersections(grid, H, V, keys, i + 1,
                                processedH \cup {h}, processedV \cup {v},
                                Append(acc, IntersectionMatch(grid, H[h], V[v], keys[i])))
             ELSE Intersections(grid, H, V, keys, i + 1, processedH, processedV, acc)

LineMatches(grid, S, processed, direction) ==
    LET idx == SelectSeq([k \in 1 .. Len(S) |-> k], LAMBDA k : k \notin processed)
    IN  [j \in 1 .. Len(idx) |->
            Match(S[idx[j]], direction, "line", grid[S[idx[j]][1][1]][S[idx[j]][1][2]].type)]

findMatches(grid) ==
    LET H == horizontalSequences(grid, 0)
        V == verticalSequences(grid, 0)
        x == Intersections(grid, H, V, FlattenSeqs(H), 1, {}, {}, <<>>)
    IN  x.matches \o LineMatches(grid, H, x.processedH, "horizontal")
                  \o LineMatches(grid, V, x.processedV, "vertical")

(***************************************************************************)
(* The puzzle state and its transition functions                           *)
(***************************************************************************)
NoSelection == [row |-> -1, col |-> -1]

NoBonus == [row |-> -1, col |-> -1, type |-> "null", bonus |-> "none"]

emptyGrid == [r \in Rows |-> [c \in Cols |-> null]]

SetCell(grid, r, c, p) == [grid EXCEPT ![r][c] = p]

ClearCells(grid, cells) ==
    [r \in Rows |-> [c \in Cols |-> IF <<r, c>> \in cells THEN null ELSE grid[r][c]]]

generateNextRow(s, n) ==
    [i \in 1 .. GRID_COLS |-> Panel(randomPanelType(s, n + i - 1), "none", GRID_ROWS, i - 1)]

\* grid[pos].type = randomPanelType() for each position of each match, in order.
RECURSIVE Redraw(_, _, _, _, _)
Redraw(grid, cells, k, s, n) ==
    IF k > Len(cells) THEN grid
    ELSE LET r == cells[k][1]
             c == cells[k][2]
         IN  Redraw(IF grid[r][c] # null
                    THEN SetCell(grid, r, c, [grid[r][c] EXCEPT !.type = randomPanelType(s, n + k - 1)])
                    ELSE grid,
                    cells, k + 1, s, n)

\* One iteration of the loop of clearInitialMatches: every matched cell is
\* redrawn and the matches are searched again.  The loop's state is the
\* grid, its matches and the number of draws consumed so far.
clearPass(st, s) ==
    LET cells == FlattenSeqs([k \in 1 .. Len(st.matches) |-> st.matches[k].positions])
        redrawn == Redraw(st.grid, cells, 1, s, st.n)
    IN  [grid |-> redrawn, matches |-> findMatches(redrawn), n |-> st.n + Len(cells)]

\* The iterations lo .. hi-1 of the loop, which stops as soon as the grid
\* has no match (the range is halved to keep the evaluation shallow).
RECURSIVE clearLoop(_, _, _, _)
clearLoop(st, lo, hi, s) ==
    IF Len(st.matches) = 0 \/ lo >= hi THEN st
    ELSE IF hi - lo = 1 THEN clearPass(st, s)
    ELSE LET mid == (lo + hi) \div 2
         IN  clearLoop(clearLoop(st, lo, mid, s), mid, hi, s)

clearInitialMatches(grid, s, n) ==
    clearLoop([grid |-> grid, matches |-> findMatches(grid), n |-> n], 0, maxIterations, s)

createPanelPuzzle(targetScore, timeRemaining, s) ==
    LET filled == [r \in Rows |-> [c \in Cols |->
                      IF r >= FirstFilledRow
                      THEN Panel(randomPanelType(s, (r - FirstFilledRow) * GRID_COLS + c),
                                 "none", r, c)
                      ELSE null]]
        cleared == clearInitialMatches(filled, s, (GRID_ROWS - FirstFilledRow) * GRID_COLS)
    IN  [grid |-> cleared.grid,
         score |-> 0,
         combo |-> 0,
         targetScore |-> targetScore,
         timeRemaining |-> timeRemaining,
         isAnimating |-> FALSE,
         isGameOver |-> FALSE,
         riseProgress |-> 0,
         nextRow |-> generateNextRow(s, cleared.n),
         selected |-> NoSelection]

InGrid(row, col) == row \in Rows /\ col \in Cols

selectPanel(state, row, col) ==
    IF state.isAnimating \/ state.isGameOver THEN [state EXCEPT !.selected = NoSelection]
    ELSE IF ~InGrid(row, col) \/ state.grid[row][col] = null THEN state
    ELSE IF state.selected.row = row /\ state.selected.col = col
         THEN [state EXCEPT !.selected = NoSelection]
         ELSE [state EXCEPT !.selected = [row |-> row, col |-> col]]

Abs(x) == IF x < 0 THEN -x ELSE x

isAdjacent(row1, col1, row2, col2) ==
    LET rowDiff == Abs(row1 - row2)
        colDiff == Abs(col1 - col2)
    IN  (rowDiff = 1 /\ colDiff = 0) \/ (rowDiff = 0 /\ colDiff = 1)

\* The two cells exchanged, the panels keeping the places stamped on them.
ExchangedUnstamped(grid, r1, c1, r2, c2) ==
    [grid EXCEPT ![r1][c1] = grid[r2][c2], ![r2][c2] = grid[r1][c1]]

\* The two cells exchanged, each surviving panel restamped with its new place.
Exchanged(grid, r1, c1, r2, c2) ==
    LET panel1 == grid[r1][c1]
        panel2 == grid[r2][c2]
    IN  [grid EXCEPT ![r1][c1] = IF panel2 # null THEN [panel2 EXCEPT !.row = r1, !.col = c1] ELSE null,
                     ![r2][c2] = IF panel1 # null THEN [panel1 EXCEPT !.row = r2, !.col = c2] ELSE null]

\* A trySwap that commits the exchange without looking for a match.
trySwapUnchecked(state, targetRow, targetCol) ==
    IF state.selected = NoSelection THEN [swapped |-> FALSE, state |-> state, threw |-> ""]
    ELSE IF ~isAdjacent(state.selected.row, state.selected.col, targetRow, targetCol)
    THEN [swapped |-> FALSE, state |-> state, threw |-> ""]
    ELSE [swapped |-> TRUE,
          state |-> [state EXCEPT !.grid = Exchanged(state.grid, state.selected.row,
                                                     state.selected.col, targetRow, targetCol),
                                  !.selected = NoSelection, !.isAnimating = TRUE],
          threw |-> ""]

\* threw names the exception that ends the call, "" when it returns.  A
\* target row outside the grid: newGrid[targetRow] is undefined and reading
\* [targetCol] of it is a TypeError.  A target column outside the grid (in a
\* row of it): panel2 is undefined, the selected cell is left empty and the
\* selected panel is stored outside the columns any function reads.
trySwap(state, targetRow, targetCol) ==
    IF state.selected = NoSelection THEN [swapped |-> FALSE, state |-> state, threw |-> ""]
    ELSE IF ~isAdjacent(state.selected.row, state.selected.col, targetRow, targetCol)
    THEN [swapped |-> FALSE, state |-> state, threw |-> ""]
    ELSE IF targetRow \notin Rows
    THEN [swapped |-> FALSE, state |-> state, threw |-> "TypeError"]
    ELSE LET newGrid == IF targetCol \in Cols
                        THEN Exchanged(state.grid, state.selected.row, state.selected.col,
                                       targetRow, targetCol)
                        ELSE [state.grid EXCEPT ![state.selected.row][state.selected.col] = null]
         IN  IF Len(findMatches(newGrid)) = 0
             THEN [swapped |-> FALSE, state |-> [state EXCEPT !.selected = NoSelection],
                   threw |-> ""]
             ELSE [swapped |-> TRUE,
                   state |-> [state EXCEPT !.grid = newGrid, !.selected = NoSelection,
                                           !.isAnimating = TRUE],
                   threw |-> ""]

swapPanels(state, row, col) ==
    IF state.isAnimating \/ state.isGameOver THEN state
    ELSE IF col >= GRID_COLS - 1 THEN state
    ELSE [state EXCEPT !.grid = Exchanged(state.grid, row, col, row, col + 1)]

(***************************************************************************)
(* processMatches: bonus creation, clearing, chained bonus activation      *)
(***************************************************************************)
\* A bonus placed one position before the middle of the match.
EarnedBonusBeforeMiddle(match) ==
    LET centerPos == match.positions[Len(match.positions) \div 2]
        earned(b) == [row |-> centerPos[1], col |-> centerPos[2], type |-> match.type, bonus |-> b]
    IN  IF match.shape = "L" \/ match.shape = "T" THEN earned("blast")
        ELSE IF Len(match.positions) >= 5 THEN earned("cross")
        ELSE IF Len(match.positions) = 4
             THEN earned(IF match.direction = "horizontal" THEN "line_h" ELSE "line_v")
             ELSE NoBonus

\* The bonus a match earns (NoBonus for a plain run of 3).
EarnedBonus(match) ==
    LET centerPos == match.positions[(Len(match.positions) \div 2) + 1]
        earned(b) == [row |-> centerPos[1], col |-> centerPos[2], type |-> match.type, bonus |-> b]
    IN  IF match.shape = "L" \/ match.shape = "T" THEN earned("blast")
        ELSE IF Len(match.positions) >= 5 THEN earned("cross")
        ELSE IF Len(match.positions) = 4
             THEN earned(IF match.direction = "horizontal" THEN "line_h" ELSE "line_v")
             ELSE NoBonus

\* The bonus tiles among the cells, in order, as {row, col, bonus}.
BonusesAt(grid, cells) ==
    LET hit == SelectSeq(cells, LAMBDA p : grid[p[1]][p[2]] # null /\ grid[p[1]][p[2]].bonus # "none")
    IN  [k \in 1 .. Len(hit) |->
            [row |-> hit[k][1], col |-> hit[k][2], bonus |-> grid[hit[k][1]][hit[k][2]].bonus]]

\* The loop "for (const match of matches)".
RECURSIVE MatchLoop(_, _, _, _, _)
MatchLoop(matches, k, newGrid, bonusesToActivate, bonusToCreate) ==
    IF k > Len(matches)
    THEN [grid |-> newGrid, bonusesToActivate |-> bonusesToActivate,
          bonusToCreate |-> bonusToCreate]
    ELSE LET earned == EarnedBonus(matches[k])
         IN  MatchLoop(matches, k + 1,
                       ClearCells(newGrid, Range(matches[k].positions)),
                       bonusesToActivate \o BonusesAt(newGrid, matches[k].positions),
                       IF earned # NoBonus THEN earned ELSE bonusToCreate)

CellsWhere(grid, cells) == SelectSeq(cells, LAMBDA p : grid[p[1]][p[2]] # null)

\* An activateBonus that clears the row whatever the bonus is.
activateBonusAsLine(grid, row, col, bonus) ==
    CellsWhere(grid, [i \in 1 .. GRID_COLS |-> <<row, i - 1>>])

activateBonus(grid, row, col, bonus) ==
    LET rowCells == [i \in 1 .. GRID_COLS |-> <<row, i - 1>>]
        colCells == [i \in 1 .. GRID_ROWS |-> <<i - 1, col>>]
        area == FlattenSeqs([i \in 1 .. 3 |-> [j \in 1 .. 3 |-> <<row + i - 2, col + j - 2>>]])
    IN  CASE bonus = "line_h" -> CellsWhere(grid, rowCells)
          [] bonus = "line_v" -> CellsWhere(grid, colCells)
          [] bonus = "cross" ->
                CellsWhere(grid, rowCells)
                \o CellsWhere(grid, SelectSeq(colCells, LAMBDA p : p[1] # row))
          [] bonus = "blast" ->
                CellsWhere(grid, SelectSeq(area, LAMBDA p : InGrid(p[1], p[2])))
          [] OTHER -> <<>>

\* The loop "while (bonusesToActivate.length > 0)"; `log` lists the bonuses
\* activated, in order.
RECURSIVE ChainLoop(_, _, _, _)
ChainLoop(newGrid, bonusesToActivate, activatedPositions, log) ==
    IF bonusesToActivate = <<>> THEN [grid |-> newGrid, log |-> log]
    ELSE LET bonusInfo == Head(bonusesToActivate)
             key == <<bonusInfo.row, bonusInfo.col>>
         IN  IF key \in activatedPositions
             THEN ChainLoop(newGrid, Tail(bonusesToActivate), activatedPositions, log)
             ELSE LET activated == activatedPositions \cup {key}
                      clearedPositions == activateBonus(newGrid, bonusInfo.row, bonusInfo.col,
                                                        bonusInfo.bonus)
                      chained == BonusesAt(newGrid,
                                     SelectSeq(clearedPositions, LAMBDA p : p \notin activated))
                  IN  ChainLoop(ClearCells(newGrid, Range(clearedPositions)),
                                Tail(bonusesToActivate) \o chained,
                                activated, Append(log, bonusInfo))

RECURSIVE SumLengths(_)
\* A sum that counts every match as three positions, whatever its length.
SumLengthsAsThrees(matches) == 3 * Len(matches)

SumLengths(matches) ==
    IF matches = <<>> THEN 0 ELSE Len(Head(matches).positions) + SumLengths(Tail(matches))

\* processMatches together with the list of the bonuses it activated.
runProcessMatches(state) ==
    LET matches == findMatches(state.grid)
        cleared == MatchLoop(matches, 1, state.grid, <<>>, NoBonus)
        chain == ChainLoop(cleared.grid, cleared.bonusesToActivate, {}, <<>>)
        b == cleared.bonusToCreate
        newGrid == IF b # NoBonus /\ chain.grid[b.row][b.col] = null
                   THEN SetCell(chain.grid, b.row, b.col, Panel(b.type, b.bonus, b.row, b.col))
                   ELSE chain.grid
        baseScore == SumLengths(matches) * 10
        \* Math.floor(baseScore * (1 + combo * 0.5))
        gained == (baseScore * (2 + state.combo)) \div 2
    IN  IF Len(matches) = 0
        THEN [state |-> [state EXCEPT !.isAnimating = FALSE], log |-> <<>>]
        ELSE [state |-> [state EXCEPT !.grid = newGrid,
                                      !.score = state.score + gained,
                                      !.combo = state.combo + 1,
                                      !.isAnimating = TRUE],
              log |-> chain.log]

\* A processMatches that clears nothing.
processMatchesKeepingPanels(state) == state

processMatches(state) == runProcessMatches(state).state

(***************************************************************************)
(* applyGravity, raiseRows, tick and the end-of-game tests                 *)
(***************************************************************************)
\* A fall that spawns a panel on every empty cell left above the column.
GravityColumnFillingTop(grid, col, s, n) ==
    LET rowsDown == [i \in 1 .. GRID_ROWS |-> GRID_ROWS - i]
        held == SelectSeq(rowsDown, LAMBDA r : grid[r][col] # null)
        writeRow == GRID_ROWS - 1 - Len(held)
        cell(r) ==
            IF r > writeRow
            THEN [grid[held[GRID_ROWS - r]][col] EXCEPT !.row = r]
            ELSE Panel(randomPanelType(s, n + (writeRow - r)), "none", r, col)
    IN  [cells |-> [r \in Rows |-> cell(r)], drawn |-> writeRow + 1]

\* One column after the fall; n is the number of draws made by the columns
\* before it.  Returns the column and the draws it consumed.
GravityColumn(grid, col, s, n) ==
    LET rowsDown == [i \in 1 .. GRID_ROWS |-> GRID_ROWS - i]
        held == SelectSeq(rowsDown, LAMBDA r : grid[r][col] # null)
        writeRow == GRID_ROWS - 1 - Len(held)
        drawn == IF writeRow >= FirstFilledRow THEN writeRow - FirstFilledRow + 1 ELSE 0
        cell(r) ==
            IF r > writeRow
            THEN LET from == held[GRID_ROWS - r]
                 IN  IF from # r THEN [grid[from][col] EXCEPT !.row = r] ELSE grid[from][col]
            ELSE IF r >= FirstFilledRow
                 THEN Panel(randomPanelType(s, n + (writeRow - r)), "none", r, col)
                 ELSE null
    IN  [cells |-> [r \in Rows |-> cell(r)], drawn |-> drawn]

RECURSIVE GravityColumns(_, _, _, _)
GravityColumns(grid, col, s, n) ==
    IF col >= GRID_COLS THEN <<>>
    ELSE LET g == GravityColumn(grid, col, s, n)
         IN  <<g.cells>> \o GravityColumns(grid, col + 1, s, n + g.drawn)

applyGravity(state, s) ==
    LET columns == GravityColumns(state.grid, 0, s, 0)
    IN  [state EXCEPT !.grid = [r \in Rows |-> [c \in Cols |-> columns[c + 1][r]]]]

raiseRows(state, s) ==
    IF \E col \in Cols : state.grid[0][col] # null
    THEN [state EXCEPT !.isGameOver = TRUE]
    ELSE [state EXCEPT
            !.grid = [r \in Rows |-> [c \in Cols |->
                        IF r < GRID_ROWS - 1
                        THEN IF state.grid[r + 1][c] # null
                             THEN [state.grid[r + 1][c] EXCEPT !.row = r]
                             ELSE null
                        ELSE [state.nextRow[c + 1] EXCEPT !.row = GRID_ROWS - 1, !.col = c]]],
            !.nextRow = generateNextRow(s, 0),
            !.riseProgress = 0]

isGameOver(state) == state.isGameOver \/ state.timeRemaining <= 0

isGameWon(state) == state.score >= state.targetScore

\* The cells in scan order, each with its right and then its down neighbour.
CandidateMoves ==
    FlattenSeqs([k \in 1 .. GRID_ROWS * GRID_COLS |->
        LET row == (k - 1) \div GRID_COLS
            col == (k - 1) % GRID_COLS
        IN  (IF col < GRID_COLS - 1
             THEN <<[from |-> <<row, col>>, to |-> <<row, col + 1>>]>> ELSE <<>>)
            \o (IF row < GRID_ROWS - 1
                THEN <<[from |-> <<row, col>>, to |-> <<row + 1, col>>]>> ELSE <<>>)])

\* The test grid of findValidMove: the two cells exchanged, nothing restamped.
TestGrid(grid, m) ==
    [grid EXCEPT ![m.from[1]][m.from[2]] = grid[m.to[1]][m.to[2]],
                 ![m.to[1]][m.to[2]] = grid[m.from[1]][m.from[2]]]

NoMove == [from |-> <<-1, -1>>, to |-> <<-1, -1>>]

findValidMove(state) ==
    LET grid == state.grid
        good(m) == /\ grid[m.from[1]][m.from[2]] # null
                   /\ grid[m.to[1]][m.to[2]] # null
                   /\ Len(findMatches(TestGrid(grid, m))) > 0
        found == {k \in 1 .. Len(CandidateMoves) : good(CandidateMoves[k])}
    IN  IF found = {} THEN NoMove
        ELSE CandidateMoves[CHOOSE k \in found : \A j \in found : k <= j]

hasValidMoves(state) == findValidMove(state) # NoMove

resetComboIfNoMatch(state) ==
    IF Len(findMatches(state.grid)) = 0 THEN [state EXCEPT !.combo = 0] ELSE state

tick(state, deltaSeconds) ==
    IF state.isGameOver THEN state
    ELSE LET newTime == IF state.timeRemaining - deltaSeconds > 0
                        THEN state.timeRemaining - deltaSeconds ELSE 0
         IN  [state EXCEPT !.timeRemaining = newTime,
                           !.isGameOver = (newTime <= 0)]

(***************************************************************************)
(* State.  puzzleState, isProcessingMatches: the host's variables of the   *)
(* same names (main.ts); pending: the timer callback the host has          *)
(* scheduled; resultShown: the result overlay is displayed; loopRunning:   *)
(* the requestAnimationFrame loop is still rescheduling itself.            *)
(* call and pre are history: the last operation with its arguments and     *)
(* outcome, and the state it was applied to.  gen is the state of one      *)
(* generateCase call; game is the store of the investigation game with the *)
(* last action dispatched.                                                 *)
(***************************************************************************)
VARIABLES puzzleState, isProcessingMatches, pending, resultShown, loopRunning,
          call, pre, gen, game

vars == <<puzzleState, isProcessingMatches, pending, resultShown, loopRunning,
          call, pre, gen, game>>

puzzleVars == <<puzzleState, isProcessingMatches, pending, resultShown, loopRunning,
                call, pre, game>>

\* The last call: its operation, the target of a trySwap, what the call
\* reported (swapped, log) and the number of calls made so far.
Call(op, row, col, swapped, count, log) ==
    [op |-> op, row |-> row, col |-> col, swapped |-> swapped,
     count |-> count, log |-> log]

NoCall == Call("none", -1, -1, FALSE, 0, <<>>)

NoState == [grid |-> emptyGrid, score |-> 0, combo |-> 0, targetScore |-> 0,
            timeRemaining |-> 0, isAnimating |-> FALSE, isGameOver |-> FALSE,
            riseProgress |-> 0, nextRow |-> <<>>, selected |-> NoSelection]

NoGen == [pc |-> "off"]

NoGame == [pc |-> "off"]

(***************************************************************************)
(* The host session (main.ts): showPanelPuzzle, its game loop, the grid    *)
(* click handler and the timer-driven cascade.                             *)
(***************************************************************************)
\* Module load: no puzzle session is open (puzzleState is null).
Init ==
    /\ puzzleState = NoState
    /\ isProcessingMatches = FALSE
    /\ pending = "none"
    /\ resultShown = FALSE
    /\ loopRunning = FALSE
    /\ call = NoCall
    /\ pre = NoState
    /\ gen = NoGen
    /\ game = NoGame

\* showPanelPuzzle: the puzzle is created (createPanelPuzzle(250, 60) in the
\* source) with the draws of stream s, and the game loop is started.
showPanelPuzzle(s) ==
    /\ puzzleState = NoState
    /\ puzzleState' = createPanelPuzzle(TargetScore, TimeLimit, s)
    /\ isProcessingMatches' = FALSE
    /\ loopRunning' = TRUE
    /\ UNCHANGED <<pending, resultShown, call, pre, gen, game>>

\* A frame that ticks whatever the cascade is doing.
frameTicksDuringCascade(state, processing) == ~state.isGameOver

\* The condition under which a frame of gameLoop ticks the clock and looks
\* for a legal move.
frameTicks(state, processing) == ~state.isGameOver /\ ~processing

\* One frame of gameLoop; delta is the time since the last frame.
gameLoop(delta) ==
    /\ loopRunning
    /\ puzzleState # NoState
    /\ IF frameTicks(puzzleState, isProcessingMatches)
       THEN LET ticked == tick(puzzleState, delta)
            IN  IF ~hasValidMoves(ticked)
                THEN /\ puzzleState' = [ticked EXCEPT !.isGameOver = TRUE]
                     /\ resultShown' = TRUE
                     /\ loopRunning' = FALSE
                ELSE IF ticked.isGameOver
                     THEN /\ puzzleState' = ticked
                          /\ resultShown' = TRUE
                          /\ loopRunning' = FALSE
                     ELSE /\ puzzleState' = ticked
                          /\ UNCHANGED <<resultShown, loopRunning>>
       ELSE UNCHANGED <<puzzleState, resultShown, loopRunning>>
    /\ UNCHANGED <<isProcessingMatches, pending, call, pre, gen, game>>

\* A click on the cell (row, col) of the rendered grid (rows FirstFilledRow
\* and below are rendered).
handleGridClick(row, col) ==
    /\ puzzleState # NoState
    /\ row >= FirstFilledRow
    /\ ~isProcessingMatches
    /\ LET empty == puzzleState.grid[row][col] = null
           sel == puzzleState.selected
       IN  /\ ~(empty /\ sel = NoSelection)
           /\ IF sel # NoSelection
              THEN IF sel.row = row /\ sel.col = col
                   THEN /\ puzzleState' = [puzzleState EXCEPT !.selected = NoSelection]
                        /\ UNCHANGED <<isProcessingMatches, pending>>
                   ELSE IF isAdjacent(sel.row, sel.col, row, col)
                        THEN LET result == trySwap(puzzleState, row, col)
                             IN  IF result.swapped
                                 THEN /\ isProcessingMatches' = TRUE
                                      /\ puzzleState' = result.state
                                      /\ pending' = "processPuzzleStep"
                                 ELSE /\ puzzleState' = [puzzleState EXCEPT !.selected = NoSelection]
                                      /\ UNCHANGED <<isProcessingMatches, pending>>
                        ELSE /\ puzzleState' = selectPanel(puzzleState, row, col)
                             /\ UNCHANGED <<isProcessingMatches, pending>>
              ELSE /\ puzzleState' = selectPanel(puzzleState, row, col)
                   /\ UNCHANGED <<isProcessingMatches, pending>>
    /\ UNCHANGED <<resultShown, loopRunning, call, pre, gen, game>>

\* A settle that forgets the combo.
settledKeepingCombo(state) == [state EXCEPT !.isAnimating = FALSE]

\* The state processPuzzleStep stores when it finds no match.
settled(state) == [state EXCEPT !.combo = 0, !.isAnimating = FALSE]

\* processPuzzleStep up to the point where it schedules the clearing
\* animation, or its settle branch when no match is left.
processPuzzleStep ==
    /\ pending = "processPuzzleStep"
    /\ IF Len(findMatches(puzzleState.grid)) > 0
       THEN /\ pending' = "animateClearing"
            /\ UNCHANGED <<puzzleState, isProcessingMatches>>
       ELSE /\ puzzleState' = settled(puzzleState)
            /\ isProcessingMatches' = FALSE
            /\ pending' = "none"
    /\ UNCHANGED <<resultShown, loopRunning, call, pre, gen, game>>

\* The callback of animateClearing: the wave is resolved, then either the
\* win is declared or gravity is applied with the draws of stream s.
afterClearing(s) ==
    /\ pending = "animateClearing"
    /\ LET resolved == processMatches(puzzleState)
       IN  IF isGameWon(resolved)
           THEN /\ puzzleState' = [resolved EXCEPT !.isGameOver = TRUE]
                /\ isProcessingMatches' = FALSE
                /\ pending' = "showPuzzleGameOver"
           ELSE /\ puzzleState' = applyGravity(resolved, s)
                /\ pending' = "animateFalling"
                /\ UNCHANGED isProcessingMatches
    /\ UNCHANGED <<resultShown, loopRunning, call, pre, gen, game>>

\* The callback of animateFalling: the next processPuzzleStep is scheduled.
afterFalling ==
    /\ pending = "animateFalling"
    /\ pending' = "processPuzzleStep"
    /\ UNCHANGED <<puzzleState, isProcessingMatches, resultShown, loopRunning, call, pre, gen, game>>

\* The delayed showPuzzleGameOver after a win.
showPuzzleGameOver ==
    /\ pending = "showPuzzleGameOver"
    /\ pending' = "none"
    /\ resultShown' = TRUE
    /\ UNCHANGED <<puzzleState, isProcessingMatches, loopRunning, call, pre, gen, game>>

Next ==
    \/ \E s \in Streams : showPanelPuzzle(s)
    \/ \E delta \in 0 .. MaxDelta : gameLoop(delta)
    \/ \E row \in Rows, col \in Cols : handleGridClick(row, col)
    \/ processPuzzleStep
    \/ \E s \in Streams : afterClearing(s)
    \/ afterFalling
    \/ showPuzzleGameOver

Spec == Init /\ [][Next]_vars

(***************************************************************************)
(* The puzzle's exported functions called in any order on the state of a   *)
(* created puzzle (panel_puzzle.ts), at most MaxCalls calls.               *)
(***************************************************************************)
InitApi ==
    /\ puzzleState = NoState
    /\ isProcessingMatches = FALSE
    /\ pending = "none"
    /\ resultShown = FALSE
    /\ loopRunning = FALSE
    /\ call = NoCall
    /\ pre = NoState
    /\ gen = NoGen
    /\ game = NoGame

hostVars == <<isProcessingMatches, pending, resultShown, loopRunning, gen, game>>

Called(op, row, col, swapped, log, result) ==
    /\ call.count < MaxCalls
    /\ pre' = puzzleState
    /\ puzzleState' = result
    /\ call' = Call(op, row, col, swapped, call.count + 1, log)
    /\ UNCHANGED hostVars

callCreatePanelPuzzle(s) ==
    /\ call.op = "none"
    /\ Called("createPanelPuzzle", -1, -1, FALSE, <<>>,
              createPanelPuzzle(TargetScore, TimeLimit, s))

callSelectPanel(row, col) ==
    /\ call.op # "none"
    /\ Called("selectPanel", -1, -1, FALSE, <<>>, selectPanel(puzzleState, row, col))

callTrySwap(row, col) ==
    /\ call.op # "none"
    /\ LET result == trySwap(puzzleState, row, col)
       IN  Called("trySwap", row, col, result.swapped, <<>>, result.state)

callSwapPanels(row, col) ==
    /\ call.op # "none"
    /\ Called("swapPanels", -1, -1, FALSE, <<>>, swapPanels(puzzleState, row, col))

callProcessMatches ==
    /\ call.op # "none"
    /\ LET run == runProcessMatches(puzzleState)
       IN  Called("processMatches", -1, -1, FALSE, run.log, run.state)

callApplyGravity(s) ==
    /\ call.op # "none"
    /\ Called("applyGravity", -1, -1, FALSE, <<>>, applyGravity(puzzleState, s))

callRaiseRows(s) ==
    /\ call.op # "none"
    /\ Called("raiseRows", -1, -1, FALSE, <<>>, raiseRows(puzzleState, s))

NextApi ==
    \/ \E s \in Streams : callCreatePanelPuzzle(s)
    \/ \E row \in Rows, col \in Cols : callSelectPanel(row, col)
    \/ \E row \in Rows, col \in Cols : callTrySwap(row, col)
    \/ \E row \in Rows, col \in Cols : callSwapPanels(row, col)
    \/ callProcessMatches
    \/ \E s \in Streams : callApplyGravity(s)
    \/ \E s \in Streams : callRaiseRows(s)

SpecApi == InitApi /\ [][NextApi]_vars

(***************************************************************************)
(* processMatches on grids built by hand, as the repository's tests build  *)
(* them: runs of panels painted on an empty grid, bonus tiles placed.      *)
(***************************************************************************)
blankState == [NoState EXCEPT !.targetScore = TargetScore, !.timeRemaining = TimeLimit]

InitBuilt ==
    /\ puzzleState = blankState
    /\ isProcessingMatches = FALSE
    /\ pending = "none"
    /\ resultShown = FALSE
    /\ loopRunning = FALSE
    /\ call = NoCall
    /\ pre = NoState
    /\ gen = NoGen
    /\ game = NoGame

RunTypes == {PANEL_TYPES[1], PANEL_TYPES[2]}

RunCells(direction, row, col, len) ==
    [i \in 1 .. len |-> IF direction = "horizontal" THEN <<row, col + i - 1>>
                                                      ELSE <<row + i - 1, col>>]

\* A run of len panels of type t is painted from (row, col).
paintRun(t, direction, row, col, len) ==
    LET cells == Range(RunCells(direction, row, col, len))
    IN  /\ call.op = "none"
        /\ call.count < MaxRuns
        /\ \A p \in cells : InGrid(p[1], p[2])
        /\ puzzleState' = [puzzleState EXCEPT !.grid =
                [r \in Rows |-> [c \in Cols |->
                    IF <<r, c>> \in cells THEN Panel(t, "none", r, c)
                                          ELSE puzzleState.grid[r][c]]]]
        /\ call' = [call EXCEPT !.count = call.count + 1]
        /\ UNCHANGED <<pre, hostVars>>

\* The run every chain starts from: three panels in the bottom row.
paintBaseRun(col) ==
    /\ call.count = 0
    /\ paintRun(PANEL_TYPES[1], "horizontal", GRID_ROWS - 1, col, 3)

\* The cell (row, col) becomes a bonus tile; an empty cell gets a panel of a
\* type other than the base run's.
placeBonus(row, col, bonus) ==
    /\ call.op = "none"
    /\ call.count >= 1
    /\ call.count < 1 + MaxBonusTiles
    /\ row >= BonusTopRow
    /\ IF puzzleState.grid[row][col] = null
       THEN puzzleState' = [puzzleState EXCEPT !.grid[row][col] =
                                Panel(PANEL_TYPES[2], bonus, row, col)]
       ELSE /\ puzzleState.grid[row][col].bonus = "none"
            /\ puzzleState' = [puzzleState EXCEPT !.grid[row][col].bonus = bonus]
    /\ call' = [call EXCEPT !.count = call.count + 1]
    /\ UNCHANGED <<pre, hostVars>>

\* processMatches is called on the grid built.
processBuilt ==
    /\ call.op = "none"
    /\ call.count >= 1
    /\ LET run == runProcessMatches(puzzleState)
       IN  /\ pre' = puzzleState
           /\ puzzleState' = run.state
           /\ call' = Call("processMatches", -1, -1, FALSE, call.count, run.log)
    /\ UNCHANGED hostVars

NextRuns ==
    \/ \E t \in RunTypes, direction \in {"horizontal", "vertical"},
          row \in Rows, col \in Cols, len \in 3 .. MaxRunLen :
            paintRun(t, direction, row, col, len)
    \/ processBuilt

SpecRuns == InitBuilt /\ [][NextRuns]_vars

NextChain ==
    \/ \E col \in 0 .. (GRID_COLS - 3) : paintBaseRun(col)
    \/ \E row \in Rows, col \in Cols, bonus \in BONUS_TYPES : placeBonus(row, col, bonus)
    \/ processBuilt

SpecChain == InitBuilt /\ [][NextChain]_vars

(***************************************************************************)
(* Case generation (src/generation/*.ts).                                  *)
(* seedrandom(seed) is a stream of numbers in [0,1) fixed by the seed.     *)
(* The model takes a bounded family of streams, one per seed, of numbers   *)
(* k/RngScale; a random source is its seed and the number of draws made.   *)
(* Operations on a random source return the value drawn (v) and the        *)
(* source after the draws (random).                                        *)
(***************************************************************************)
RngScale == 60

NumSeeds == 12

MaxSuspects == 6

MaxRedraws == 8

MaxRetries == 2

Seeds == 0 .. (NumSeeds - 1)

\* The k-th number of the stream of a seed, as a numerator over RngScale.
seedrandom(seed, k) ==
    ((seed + 1) * (k * k + k + 1) * 7 + seed * seed * (k + 3)
        + (k \div 3) * 11 + (k \div 7) * 13) % RngScale

\* A source that continues the stream position of the source of the call
\* before it instead of starting the stream of the seed afresh.
createRandomContinuing(seed) == [seed |-> seed, n |-> gen.random.n]

createRandom(seed) == [seed |-> seed, n |-> 0]

rng(r) == seedrandom(r.seed, r.n)

advance(r) == [r EXCEPT !.n = @ + 1]

random(r) == [v |-> rng(r), random |-> advance(r)]

\* Math.floor(rng() * (max - min + 1)) + min
randomInt(r, min, max) ==
    [v |-> ((rng(r) * (max - min + 1)) \div RngScale) + min, random |-> advance(r)]

undefined == [undefined |-> TRUE]

\* array[Math.floor(rng() * array.length)]: undefined for an empty array.
pick(r, array) ==
    [v |-> IF Len(array) = 0 THEN undefined
           ELSE array[((rng(r) * Len(array)) \div RngScale) + 1],
     random |-> advance(r)]

\* A pick whose value is a display text: only the draw is modelled.
pickText(r) == advance(r)

\* One pass of the loop body at position i (1-based): a draw and a swap.
shuffleStep(st, i) ==
    LET j == ((rng(st.random) * i) \div RngScale) + 1
    IN  [v |-> [st.v EXCEPT ![i] = st.v[j], ![j] = st.v[i]], random |-> advance(st.random)]

\* The passes for positions hi down to lo, split in halves.
RECURSIVE shuffleLoop(_, _, _)
shuffleLoop(st, hi, lo) ==
    IF Len(st.v) = 0 \/ hi < lo THEN st
    ELSE IF hi = lo THEN shuffleStep(st, hi)
    ELSE LET mid == (hi + lo) \div 2
         IN  shuffleLoop(shuffleLoop(st, hi, mid + 1), mid, lo)

\* Fisher-Yates on a copy, from the last position down, one draw per position.
shuffle(r, array) ==
    shuffleLoop([v |-> SubSeq(array, 1, Len(array)), random |-> r], Len(array), 2)

slice(array, count) == SubSeq(array, 1, IF count < Len(array) THEN count ELSE Len(array))

Min(a, b) == IF a < b THEN a ELSE b

(***************************************************************************)
(* Locations (case_generator.ts, data/locations.ts): the first seven       *)
(* templates of manorLocations are private rooms, the other twelve public. *)
(***************************************************************************)
manorLocations == [t \in 1 .. 19 |-> [template |-> t, isPublic |-> t > 7]]

createLocation(id, template, isPublic, isCrimeScene) ==
    [id |-> id, template |-> template, isPublic |-> isPublic,
     isCrimeScene |-> isCrimeScene]

generateLocations(r) ==
    LET shuffled == shuffle(r, manorLocations)
        count == randomInt(shuffled.random, 6, 8)
        chosen == slice(shuffled.v, count.v)
    IN  [v |-> [index \in 1 .. Len(chosen) |->
                  createLocation(index - 1, chosen[index].template,
                                 chosen[index].isPublic, FALSE)],
         random |-> count.random]

publicOf(locations) ==
    LET Public(l) == l.isPublic IN SelectSeq(locations, Public)

privateOf(locations) ==
    LET Private(l) == ~l.isPublic IN SelectSeq(locations, Private)

selectCrimeScene(locations, r) ==
    LET privateLocations == privateOf(locations)
        candidates == IF Len(privateLocations) > 0 THEN privateLocations ELSE locations
        scene == pick(r, candidates)
    IN  [v |-> createLocation(scene.v.id, scene.v.template, scene.v.isPublic, TRUE),
         random |-> scene.random]

MotiveType ==
    <<"jealousy", "greed", "revenge", "fear", "hatred", "protection", "ambition">>

WeaponType == <<"poison", "knife", "blunt", "firearm", "strangulation", "pushed">>

selectMotive(r) == pick(r, MotiveType)

selectWeapon(r) == pick(r, WeaponType)

selectTimeOfDeath(r) == randomInt(r, 20, 23)

(***************************************************************************)
(* Suspects (suspect_generator.ts).  The name, occupation and description  *)
(* pools are shuffled for their draws only; a suspect keeps its id (the i  *)
(* of suspect-i), its age and its two role flags.                          *)
(***************************************************************************)
firstNames == [i \in 1 .. 60 |-> i]

lastNames == [i \in 1 .. 50 |-> i]

occupations == [i \in 1 .. 32 |-> i]

descriptions == [i \in 1 .. 28 |-> i]

createSuspect(id, age, isVictim, isKiller) ==
    [id |-> id, age |-> age, isVictim |-> isVictim, isKiller |-> isKiller]

\* Four draws: honesty, composure, aggression, observance.
generatePersonality(r) == advance(advance(advance(advance(r))))

RECURSIVE suspectLoop(_, _, _, _)
suspectLoop(r, i, count, suspects) ==
    IF i >= count THEN [v |-> suspects, random |-> r]
    ELSE LET age == randomInt(generatePersonality(r), 25, 70)
         IN  suspectLoop(age.random, i + 1, count,
                         Append(suspects, createSuspect(i, age.v, FALSE, FALSE)))

generateSuspects(count, r) ==
    LET shuffledFirstNames == shuffle(r, firstNames)
        shuffledLastNames == shuffle(shuffledFirstNames.random, lastNames)
        shuffledOccupations == shuffle(shuffledLastNames.random, occupations)
        shuffledDescriptions == shuffle(shuffledOccupations.random, descriptions)
    IN  suspectLoop(shuffledDescriptions.random, 0, count, <<>>)

\* The killer index is taken as first drawn, without the redraw loop.
firstKillerDraw(r, victimIndex, killerIndex, length, tries) ==
    [v |-> killerIndex, random |-> r, hang |-> FALSE, tries |-> tries]

\* while (killerIndex === victimIndex) killerIndex = randomInt(...): tries
\* counts the redraws made, and hang reports a stream on which MaxRedraws
\* redraws did not end the loop.
RECURSIVE redrawKiller(_, _, _, _, _)
redrawKiller(r, victimIndex, killerIndex, length, tries) ==
    IF killerIndex # victimIndex
    THEN [v |-> killerIndex, random |-> r, hang |-> FALSE, tries |-> tries]
    ELSE IF tries >= MaxRedraws
    THEN [v |-> killerIndex, random |-> r, hang |-> TRUE, tries |-> tries]
    ELSE LET again == randomInt(r, 0, length - 1)
         IN  redrawKiller(again.random, victimIndex, again.v, length, tries + 1)

NoSuspect == createSuspect(-1, 0, FALSE, FALSE)

assignVictimAndKiller(suspects, r) ==
    IF Len(suspects) < 3
    THEN [threw |-> "Error", hang |-> FALSE, redraws |-> 0, victim |-> NoSuspect,
          killer |-> NoSuspect, others |-> <<>>, random |-> r]
    ELSE LET victimIndex == randomInt(r, 0, Len(suspects) - 1)
             firstDraw == randomInt(victimIndex.random, 0, Len(suspects) - 1)
             killerIndex == redrawKiller(firstDraw.random, victimIndex.v, firstDraw.v,
                                         Len(suspects), 0)
             chosenVictim == suspects[victimIndex.v + 1]
             chosenKiller == suspects[killerIndex.v + 1]
             others == [k \in 1 .. Len(suspects) |-> k]
             Other(k) == (k - 1) # victimIndex.v /\ (k - 1) # killerIndex.v
             kept == SelectSeq(others, Other)
             shuffledOthers == shuffle(killerIndex.random,
                                       [k \in 1 .. Len(kept) |-> suspects[kept[k]]])
         IN  [threw |-> "", hang |-> killerIndex.hang, redraws |-> killerIndex.tries,
              victim |-> createSuspect(chosenVictim.id, chosenVictim.age, TRUE,
                                       chosenVictim.isKiller),
              killer |-> createSuspect(chosenKiller.id, chosenKiller.age,
                                       chosenKiller.isVictim, TRUE),
              others |-> shuffledOthers.v, random |-> shuffledOthers.random]

(***************************************************************************)
(* Relationships (relationship_graph.ts).  secretReason records whether    *)
(* the relationship carries one.  The per-person connection counts of the  *)
(* source's map are the counts of the relationships built so far.          *)
(***************************************************************************)
minConnectionsPerPerson == 2

motiveRelationships ==
    <<"spouse", "ex_spouse", "lover", "ex_lover", "sibling", "business_partner",
      "rival", "enemy">>

allRelationships ==
    <<"spouse", "ex_spouse", "lover", "ex_lover", "sibling", "parent", "child",
      "friend", "rival", "enemy", "business_partner", "employee", "employer",
      "acquaintance">>

secretTypes == <<"lover", "ex_lover", "business_partner">>

motiveToRelationships(motive) ==
    CASE motive = "jealousy" -> <<"spouse", "lover", "ex_lover", "sibling">>
      [] motive = "greed" -> <<"sibling", "child", "spouse", "business_partner">>
      [] motive = "revenge" -> <<"enemy", "ex_spouse", "ex_lover", "rival">>
      [] motive = "fear" -> <<"employee", "business_partner", "acquaintance">>
      [] motive = "hatred" -> <<"enemy", "rival", "sibling">>
      [] motive = "protection" -> <<"parent", "spouse", "friend">>
      [] OTHER -> <<"employee", "business_partner", "rival">>

createRelationship(from, to, type, sentiment, isPublicKnowledge, secretReason) ==
    [from |-> from, to |-> to, type |-> type,
     sentiment |-> IF sentiment < -10 THEN -10 ELSE IF sentiment > 10 THEN 10 ELSE sentiment,
     isPublicKnowledge |-> isPublicKnowledge, secretReason |-> secretReason]

getRelationshipForMotive(motive, r) == pick(r, motiveToRelationships(motive))

generateSecretReason(relType, r) == pickText(r)

createKillerVictimRelationship(killerId, victimId, motive, r) ==
    LET relType == getRelationshipForMotive(motive, r)
        sentiment == randomInt(relType.random, -10, -6)
        known == random(sentiment.random)
    IN  [v |-> createRelationship(killerId, victimId, relType.v, sentiment.v,
                                  known.v * 10 > 4 * RngScale, FALSE),
         random |-> known.random]

exists(relationships, a, b) ==
    \E k \in 1 .. Len(relationships) :
        \/ relationships[k].from = a /\ relationships[k].to = b
        \/ relationships[k].from = b /\ relationships[k].to = a

connectionCount(relationships, id) ==
    Cardinality({k \in 1 .. Len(relationships) : relationships[k].from = id})
        + Cardinality({k \in 1 .. Len(relationships) : relationships[k].to = id})

\* Step 2: red-herring relationships with the victim.  Reading .id of a
\* missing shuffledOthers[i] is a TypeError.
RECURSIVE redHerringLoop(_, _, _, _, _, _)
redHerringLoop(r, i, redHerringCount, shuffledOthers, victimId, relationships) ==
    IF i >= redHerringCount THEN [threw |-> "", v |-> relationships, random |-> r]
    ELSE IF i + 1 > Len(shuffledOthers)
    THEN [threw |-> "TypeError", v |-> relationships, random |-> r]
    ELSE LET relType == pick(r, motiveRelationships)
             sentiment == randomInt(relType.random, -8, -3)
             known == random(sentiment.random)
         IN  redHerringLoop(known.random, i + 1, redHerringCount, shuffledOthers, victimId,
                Append(relationships,
                       createRelationship(shuffledOthers[i + 1].id, victimId, relType.v,
                                          sentiment.v, known.v * 10 > 3 * RngScale, FALSE)))

RECURSIVE connectTo(_, _, _, _, _, _)
connectTo(r, i, count, suspectId, shuffledCandidates, relationships) ==
    IF i >= count THEN [v |-> relationships, random |-> r]
    ELSE LET relType == pick(r, allRelationships)
             sentiment == randomInt(relType.random, -5, 8)
             known == random(sentiment.random)
         IN  connectTo(known.random, i + 1, count, suspectId, shuffledCandidates,
                Append(relationships,
                       createRelationship(suspectId, shuffledCandidates[i + 1].id, relType.v,
                                          sentiment.v, known.v * 10 > 2 * RngScale, FALSE)))

\* Step 3 left out: nobody is given further connections.
connectNobody(r, k, allSuspects, relationships) == [v |-> relationships, random |-> r]

\* Step 3: connections for under-connected suspects, in allSuspects order.
RECURSIVE connectLoop(_, _, _, _)
connectLoop(r, k, allSuspects, relationships) ==
    IF k > Len(allSuspects) THEN [v |-> relationships, random |-> r]
    ELSE LET suspect == allSuspects[k]
             currentConnections == connectionCount(relationships, suspect.id)
             needed == minConnectionsPerPerson - currentConnections
             Candidate(s) == s.id # suspect.id /\ ~exists(relationships, suspect.id, s.id)
             shuffledCandidates == shuffle(r, SelectSeq(allSuspects, Candidate))
             added == connectTo(shuffledCandidates.random, 0,
                                Min(needed, Len(shuffledCandidates.v)), suspect.id,
                                shuffledCandidates.v, relationships)
         IN  IF currentConnections < minConnectionsPerPerson
             THEN connectLoop(added.random, k + 1, allSuspects, added.v)
             ELSE connectLoop(r, k + 1, allSuspects, relationships)

\* Step 4: one or two secret relationships between the first two of a
\* fresh shuffle, skipped when the two are already related.
RECURSIVE secretLoop(_, _, _, _, _)
secretLoop(r, i, secretCount, allSuspects, relationships) ==
    IF i >= secretCount THEN [v |-> relationships, random |-> r]
    ELSE LET shuffled == shuffle(r, allSuspects)
             person1 == shuffled.v[1]
             person2 == shuffled.v[2]
             relType == pick(shuffled.random, secretTypes)
             sentiment == randomInt(relType.random, -3, 7)
             reason == generateSecretReason(relType.v, sentiment.random)
         IN  IF ~exists(relationships, person1.id, person2.id)
             THEN secretLoop(reason, i + 1, secretCount, allSuspects,
                     Append(relationships,
                            createRelationship(person1.id, person2.id, relType.v,
                                               sentiment.v, FALSE, TRUE)))
             ELSE secretLoop(shuffled.random, i + 1, secretCount, allSuspects, relationships)

generateRelationshipGraph(victim, killer, others, motive, r) ==
    LET allSuspects == <<victim, killer>> \o others
        killerVictimRel == createKillerVictimRelationship(killer.id, victim.id, motive, r)
        redHerringCount == randomInt(killerVictimRel.random, 2, Min(3, Len(others)))
        shuffledOthers == shuffle(redHerringCount.random, others)
        redHerrings == redHerringLoop(shuffledOthers.random, 0, redHerringCount.v,
                                      shuffledOthers.v, victim.id, <<killerVictimRel.v>>)
        connected == connectLoop(redHerrings.random, 1, allSuspects, redHerrings.v)
        secretCount == randomInt(connected.random, 1, 2)
        secrets == secretLoop(secretCount.random, 0, secretCount.v, allSuspects, connected.v)
    IN  IF redHerrings.threw # ""
        THEN [threw |-> redHerrings.threw, v |-> redHerrings.v, random |-> redHerrings.random]
        ELSE [threw |-> "", v |-> secrets.v, random |-> secrets.random]

(***************************************************************************)
(* Clues (clue_generator.ts, domain/clue.ts).  id is the i of clue-i;      *)
(* NoId stands for an absent pointsTo or refutedBy.                        *)
(***************************************************************************)
NoId == -1

\* Every clue is flagged as a red herring.
createClueAsRedHerring(id, type, foundAt, pointsTo, isRedHerring, refutedBy, significance) ==
    [id |-> id, type |-> type, foundAt |-> foundAt, pointsTo |-> pointsTo,
     isRedHerring |-> TRUE, refutedBy |-> refutedBy, significance |-> significance]

createClue(id, type, foundAt, pointsTo, isRedHerring, refutedBy, significance) ==
    [id |-> id, type |-> type, foundAt |-> foundAt, pointsTo |-> pointsTo,
     isRedHerring |-> isRedHerring, refutedBy |-> refutedBy, significance |-> significance]

getDifficultyClueCount(difficulty) ==
    CASE difficulty = "easy" -> 5
      [] difficulty = "medium" -> 4
      [] OTHER -> 3

getDifficultyRedHerrings(difficulty) ==
    CASE difficulty = "easy" -> 1
      [] difficulty = "medium" -> 2
      [] OTHER -> 3

\* Step 6: one alibi-clearing clue per innocent; two picks of a location,
\* the first for the text only.
RECURSIVE alibiClueLoop(_, _, _, _, _)
alibiClueLoop(r, k, others, allLocations, clues) ==
    IF k > Len(others) THEN [v |-> clues, random |-> r]
    ELSE LET named == pick(r, allLocations)
             foundAt == pick(named.random, allLocations)
         IN  alibiClueLoop(foundAt.random, k + 1, others, allLocations,
                Append(clues, createClue(Len(clues), "testimonial", foundAt.v.id,
                                         others[k].id, FALSE, NoId, "normal")))

\* clues.find(c => c.pointsTo === id && c.type === Testimonial)?.id
alibiClueOf(clues, id) ==
    LET found == {k \in 1 .. Len(clues) :
                     clues[k].pointsTo = id /\ clues[k].type = "testimonial"}
    IN  IF found = {} THEN NoId
        ELSE clues[CHOOSE k \in found : \A other \in found : k <= other].id

\* Step 7: red herrings pointing to the first innocents of a shuffle.
RECURSIVE redHerringClueLoop(_, _, _, _, _, _)
redHerringClueLoop(r, i, count, shuffledInnocents, crimeScene, clues) ==
    IF i >= count THEN [v |-> clues, random |-> r]
    ELSE LET redHerringTarget == shuffledInnocents[i + 1]
         IN  redHerringClueLoop(pickText(r), i + 1, count, shuffledInnocents, crimeScene,
                Append(clues, createClue(Len(clues), "physical", crimeScene.id,
                                         redHerringTarget.id, TRUE,
                                         alibiClueOf(clues, redHerringTarget.id), "minor")))

generateClues(killer, victim, others, motive, weapon, crimeScene, allLocations, relationships, r, config) ==
    LET physical == pickText(pickText(r))
        documentary == pick(pickText(pickText(physical)), allLocations)
        behavioral == pick(documentary.random, allLocations)
        first == <<createClue(0, "physical", crimeScene.id, killer.id, FALSE, NoId, "critical"),
                   createClue(1, "documentary", documentary.v.id, killer.id, FALSE, NoId,
                              "critical"),
                   createClue(2, "testimonial", crimeScene.id, killer.id, FALSE, NoId,
                              "normal"),
                   createClue(3, "behavioral", behavioral.v.id, killer.id, FALSE, NoId,
                              "normal"),
                   createClue(4, "forensic", crimeScene.id, NoId, FALSE, NoId, "critical")>>
        alibiClues == alibiClueLoop(behavioral.random, 1, others, allLocations, first)
        shuffledInnocents == shuffle(alibiClues.random, others)
        redHerrings == redHerringClueLoop(shuffledInnocents.random, 0,
                          Min(config.redHerringCount, Len(shuffledInnocents.v)),
                          shuffledInnocents.v, crimeScene, alibiClues.v)
        secret == {k \in 1 .. Len(relationships) : ~relationships[k].isPublicKnowledge}
        privateLocations == privateOf(allLocations)
        hiddenLocation == IF Len(privateLocations) > 0
                          THEN pick(redHerrings.random, privateLocations)
                          ELSE pick(redHerrings.random, allLocations)
    IN  IF secret # {}
        THEN shuffle(hiddenLocation.random,
                     Append(redHerrings.v,
                            createClue(Len(redHerrings.v), "documentary", hiddenLocation.v.id,
                                       NoId, FALSE, NoId, "normal")))
        ELSE shuffle(redHerrings.random, redHerrings.v)

(***************************************************************************)
(* Alibis (alibi_generator.ts, domain/alibi.ts).                           *)
(***************************************************************************)
KillerAlibiStrategy ==
    <<"no_witnesses", "unreliable_witness", "partial_alibi", "conflicting_times">>

\* An alibi built from the defaults of createAlibi, its two flags ignored.
createAlibiByDefault(suspectId, timeSlot, location, witnesses, isVerifiable, isFalse) ==
    [suspectId |-> suspectId, timeSlot |-> timeSlot, location |-> location,
     witnesses |-> witnesses, isVerifiable |-> TRUE, isFalse |-> FALSE]

createAlibi(suspectId, timeSlot, location, witnesses, isVerifiable, isFalse) ==
    [suspectId |-> suspectId, timeSlot |-> timeSlot, location |-> location,
     witnesses |-> witnesses, isVerifiable |-> isVerifiable, isFalse |-> isFalse]

ids(suspects) == [k \in 1 .. Len(suspects) |-> suspects[k].id]

selectWitnesses(excludeId, allSuspects, r) ==
    LET Candidate(s) == s.id # excludeId /\ ~s.isVictim
        candidates == SelectSeq(allSuspects, Candidate)
        count == randomInt(r, 1, Min(2, Len(candidates)))
        shuffled == shuffle(count.random, candidates)
    IN  [v |-> slice(shuffled.v, count.v), random |-> shuffled.random]

\* The innocents' alibis: reading .id of a location picked from an empty
\* publicLocations is a TypeError.
RECURSIVE innocentLoop(_, _, _, _, _, _, _)
innocentLoop(r, k, others, allSuspects, publicLocations, timeOfDeath, alibis) ==
    IF k > Len(others) THEN [threw |-> "", v |-> alibis, random |-> r]
    ELSE LET innocent == others[k]
             location == pick(r, publicLocations)
             witnesses == selectWitnesses(innocent.id, allSuspects, location.random)
             hasWeakAlibi == random(witnesses.random)
             described == pickText(hasWeakAlibi.random)
             seen == IF hasWeakAlibi.v * 10 < 2 * RngScale THEN slice(witnesses.v, 1)
                     ELSE witnesses.v
         IN  IF location.v = undefined
             THEN [threw |-> "TypeError", v |-> alibis, random |-> hasWeakAlibi.random]
             ELSE innocentLoop(described, k + 1, others, allSuspects, publicLocations,
                     timeOfDeath,
                     Append(alibis, createAlibi(innocent.id, timeOfDeath, location.v.id,
                                                ids(seen), TRUE, FALSE)))

generateKillerAlibi(killer, others, publicLocations, privateLocations, timeOfDeath, strategy, r) ==
    LET publicFirst == pick(r, IF Len(publicLocations) > 0 THEN publicLocations
                               ELSE privateLocations)
        privateFirst == pick(r, IF Len(privateLocations) > 0 THEN privateLocations
                                ELSE publicLocations)
        fakeWitness == pick(publicFirst.random, others)
        witnesses == selectWitnesses(killer.id, <<killer>> \o others, publicFirst.random)
    IN  CASE strategy = "unreliable_witness" ->
               [v |-> createAlibi(killer.id, timeOfDeath, publicFirst.v.id,
                                  <<fakeWitness.v.id>>, FALSE, TRUE),
                random |-> pickText(fakeWitness.random)]
          [] strategy = "partial_alibi" ->
               [v |-> createAlibi(killer.id, timeOfDeath, publicFirst.v.id,
                                  ids(witnesses.v), FALSE, TRUE),
                random |-> pickText(witnesses.random)]
          [] OTHER ->
               [v |-> createAlibi(killer.id, timeOfDeath, privateFirst.v.id, <<>>,
                                  FALSE, TRUE),
                random |-> pickText(privateFirst.random)]

generateAlibis(killer, victim, others, locations, timeOfDeath, r) ==
    LET publicLocations == publicOf(locations)
        privateLocations == privateOf(locations)
        allSuspects == <<killer>> \o others
        killerStrategy == pick(r, KillerAlibiStrategy)
        innocents == innocentLoop(killerStrategy.random, 1, others, allSuspects,
                                  publicLocations, timeOfDeath, <<>>)
        killerAlibi == generateKillerAlibi(killer, others, publicLocations, privateLocations,
                                           timeOfDeath, killerStrategy.v, innocents.random)
        shuffled == shuffle(killerAlibi.random, Append(innocents.v, killerAlibi.v))
    IN  IF innocents.threw # ""
        THEN [threw |-> innocents.threw, v |-> innocents.v, random |-> innocents.random,
              killerStrategy |-> killerStrategy.v]
        ELSE [threw |-> "", v |-> shuffled.v, random |-> shuffled.random,
              killerStrategy |-> killerStrategy.v]

(***************************************************************************)
(* The case (domain/case.ts) and generateCase (case_generator.ts), one     *)
(* step per call it makes.  gen.pc is the call about to be made; returned, *)
(* threw and hang are the ways a call ends.  gen.first keeps how the first *)
(* call ended, for a second call with the same arguments; gen.redraws and  *)
(* gen.killerStrategy keep what the generators drew on the way.            *)
(***************************************************************************)
createCase(seed, suspects, relationships, locations, clues, alibis, victim, killer, motive, weapon, crimeScene, timeOfDeath) ==
    [seed |-> seed, suspects |-> suspects, relationships |-> relationships,
     locations |-> locations, clues |-> clues, alibis |-> alibis, victim |-> victim,
     killer |-> killer, motive |-> motive, weapon |-> weapon, crimeScene |-> crimeScene,
     timeOfDeath |-> timeOfDeath]

getCluesPointingTo(caseData, suspectId) ==
    LET Points(c) == c.pointsTo = suspectId IN SelectSeq(caseData.clues, Points)

\* The solvability check asking for five clues that point to the killer.
isCaseSolvableWithFiveClues(caseData) == Len(getCluesPointingTo(caseData, caseData.killer)) >= 5

isCaseSolvable(caseData) == Len(getCluesPointingTo(caseData, caseData.killer)) > 0

NoCase == createCase(NoId, <<>>, <<>>, <<>>, <<>>, <<>>, NoId, NoId, "", "", NoId, 0)

Difficulties == {"easy", "medium", "hard"}

Configs == [suspectCount : 2 .. MaxSuspects, difficulty : Difficulties]

defaultConfig == [suspectCount |-> 6, difficulty |-> "medium"]

\* `${seed}-retry`: another seed, outside the seeds a caller passes.
retrySeed(seed) == seed + NumSeeds

GenIdle ==
    [pc |-> "idle", calls |-> 0, retries |-> 0, args |-> [seed |-> 0, config |-> defaultConfig],
     seed |-> 0, config |-> defaultConfig, random |-> [seed |-> 0, n |-> 0],
     locations |-> <<>>, suspects |-> <<>>, victim |-> NoSuspect, killer |-> NoSuspect,
     others |-> <<>>, redraws |-> 0, motive |-> "", weapon |-> "",
     crimeScene |-> createLocation(NoId, 0, FALSE, FALSE), timeOfDeath |-> 0,
     relationships |-> <<>>, clues |-> <<>>, alibis |-> <<>>, killerStrategy |-> "",
     result |-> NoCase, threw |-> "", first |-> [pc |-> "none", result |-> NoCase, threw |-> ""]]

InitGen ==
    /\ puzzleState = NoState
    /\ isProcessingMatches = FALSE
    /\ pending = "none"
    /\ resultShown = FALSE
    /\ loopRunning = FALSE
    /\ call = NoCall
    /\ pre = NoState
    /\ gen = GenIdle
    /\ game = NoGame

\* Entry of generateCase: fullConfig and createRandom(seed).
enter(g, seed, config) ==
    [g EXCEPT !.pc = "generateLocations", !.seed = seed, !.config = config,
              !.random = createRandom(seed)]

Finished == gen.pc \in {"returned", "threw", "hang"}

generateCase(seed, config) ==
    /\ gen.pc = "idle"
    /\ gen' = enter([GenIdle EXCEPT !.calls = 1,
                                    !.args = [seed |-> seed, config |-> config]],
                    seed, config)
    /\ UNCHANGED puzzleVars

\* A second call with the arguments of the first.
generateCaseAgain ==
    /\ Finished
    /\ gen.calls = 1
    /\ gen' = enter([GenIdle EXCEPT !.calls = 2, !.args = gen.args, !.random = gen.random,
                                    !.first = [pc |-> gen.pc, result |-> gen.result,
                                               threw |-> gen.threw]],
                    gen.args.seed, gen.args.config)
    /\ UNCHANGED puzzleVars

locationsStep ==
    /\ gen.pc = "generateLocations"
    /\ LET locations == generateLocations(gen.random)
       IN  gen' = [gen EXCEPT !.pc = "generateSuspects", !.locations = locations.v,
                              !.random = locations.random]
    /\ UNCHANGED puzzleVars

suspectsStep ==
    /\ gen.pc = "generateSuspects"
    /\ LET suspects == generateSuspects(gen.config.suspectCount, gen.random)
       IN  gen' = [gen EXCEPT !.pc = "assignVictimAndKiller", !.suspects = suspects.v,
                              !.random = suspects.random]
    /\ UNCHANGED puzzleVars

assignStep ==
    /\ gen.pc = "assignVictimAndKiller"
    /\ LET assigned == assignVictimAndKiller(gen.suspects, gen.random)
       IN  gen' = IF assigned.threw # ""
                  THEN [gen EXCEPT !.pc = "threw", !.threw = assigned.threw]
                  ELSE IF assigned.hang THEN [gen EXCEPT !.pc = "hang"]
                  ELSE [gen EXCEPT !.pc = "select", !.victim = assigned.victim,
                                   !.killer = assigned.killer, !.others = assigned.others,
                                   !.redraws = assigned.redraws,
                                   !.random = assigned.random]
    /\ UNCHANGED puzzleVars

\* selectMotive, selectWeapon, selectCrimeScene, selectTimeOfDeath.
selectStep ==
    /\ gen.pc = "select"
    /\ LET motive == selectMotive(gen.random)
           weapon == selectWeapon(motive.random)
           crimeScene == selectCrimeScene(gen.locations, weapon.random)
           timeOfDeath == selectTimeOfDeath(crimeScene.random)
       IN  gen' = [gen EXCEPT !.pc = "generateRelationshipGraph", !.motive = motive.v,
                              !.weapon = weapon.v, !.crimeScene = crimeScene.v,
                              !.timeOfDeath = timeOfDeath.v, !.random = timeOfDeath.random]
    /\ UNCHANGED puzzleVars

relationshipsStep ==
    /\ gen.pc = "generateRelationshipGraph"
    /\ LET graph == generateRelationshipGraph(gen.victim, gen.killer, gen.others,
                                              gen.motive, gen.random)
       IN  gen' = IF graph.threw # ""
                  THEN [gen EXCEPT !.pc = "threw", !.threw = graph.threw]
                  ELSE [gen EXCEPT !.pc = "generateClues", !.relationships = graph.v,
                                   !.random = graph.random]
    /\ UNCHANGED puzzleVars

cluesStep ==
    /\ gen.pc = "generateClues"
    /\ LET clues == generateClues(gen.killer, gen.victim, gen.others, gen.motive,
                       gen.weapon, gen.crimeScene, gen.locations, gen.relationships,
                       gen.random,
                       [minCluesPointingToKiller |->
                            getDifficultyClueCount(gen.config.difficulty),
                        redHerringCount |-> getDifficultyRedHerrings(gen.config.difficulty)])
       IN  gen' = [gen EXCEPT !.pc = "generateAlibis", !.clues = clues.v,
                              !.random = clues.random]
    /\ UNCHANGED puzzleVars

alibisStep ==
    /\ gen.pc = "generateAlibis"
    /\ LET alibis == generateAlibis(gen.killer, gen.victim, gen.others, gen.locations,
                                    gen.timeOfDeath, gen.random)
       IN  gen' = IF alibis.threw # ""
                  THEN [gen EXCEPT !.pc = "threw", !.threw = alibis.threw,
                                   !.killerStrategy = alibis.killerStrategy]
                  ELSE [gen EXCEPT !.pc = "createCase", !.alibis = alibis.v,
                                   !.killerStrategy = alibis.killerStrategy,
                                   !.random = alibis.random]
    /\ UNCHANGED puzzleVars

\* createCase and the solvability check: return the case, or start over
\* with the retry seed (unbounded recursion ends in a RangeError).
createCaseStep ==
    /\ gen.pc = "createCase"
    /\ LET generatedCase ==
               createCase(gen.seed, <<gen.victim, gen.killer>> \o gen.others,
                          gen.relationships, gen.locations, gen.clues, gen.alibis,
                          gen.victim.id, gen.killer.id, gen.motive, gen.weapon,
                          gen.crimeScene.id, gen.timeOfDeath)
       IN  gen' = IF isCaseSolvable(generatedCase)
                  THEN [gen EXCEPT !.pc = "returned", !.result = generatedCase]
                  ELSE IF gen.retries >= MaxRetries
                  THEN [gen EXCEPT !.pc = "threw", !.threw = "RangeError"]
                  ELSE enter([gen EXCEPT !.retries = @ + 1], retrySeed(gen.seed),
                             gen.config)
    /\ UNCHANGED puzzleVars

NextGen ==
    \/ \E seed \in Seeds, config \in Configs : generateCase(seed, config)
    \/ generateCaseAgain
    \/ locationsStep
    \/ suspectsStep
    \/ assignStep
    \/ selectStep
    \/ relationshipsStep
    \/ cluesStep
    \/ alibisStep
    \/ createCaseStep

SpecGen == InitGen /\ [][NextGen]_vars

(***************************************************************************)
(* The steps of a session, as the claims name them.                        *)
(***************************************************************************)
\* The session becomes over in this step.
EntersTerminal == ~puzzleState.isGameOver /\ puzzleState'.isGameOver

\* A wave is resolved in this step (the callback of animateClearing).
WaveResolved == pending = "animateClearing" /\ pending' # "animateClearing"

\* A settle pass finds no match in this step.
SettleFindsNone == pending = "processPuzzleStep" /\ pending' = "none"

\* A swap is accepted in this step.
SwapAccepted == ~isProcessingMatches /\ isProcessingMatches'

\* C6 as stated: a puzzle session enters a terminal state (won or lost) only
\* from the selecting state, never while the cascade of an accepted swap is
\* in progress.
C6_TerminalOnlyFromSelecting ==
    [][EntersTerminal => ~isProcessingMatches]_vars

\* C6 as the code has it: a session is lost (time expired or no legal move)
\* only while no cascade is in progress, and it is won only inside a
\* cascade, in the step that resolves the wave taking the score to the
\* target.
C6_TerminalEntry ==
    [][EntersTerminal =>
        \/ /\ ~isProcessingMatches
           /\ pending = "none"
           /\ puzzleState'.score < puzzleState'.targetScore
           /\ puzzleState'.timeRemaining <= 0 \/ ~hasValidMoves(puzzleState')
        \/ /\ isProcessingMatches
           /\ WaveResolved
           /\ puzzleState.score < puzzleState.targetScore
           /\ puzzleState'.score >= puzzleState'.targetScore]_vars

\* C6 witness: the session has just been won by a wave of a cascade, whose
\* falling step never ran.
C6_WonInCascade ==
    /\ puzzleState.isGameOver
    /\ puzzleState.score >= puzzleState.targetScore
    /\ pending = "showPuzzleGameOver"
    /\ Len(findMatches(puzzleState.grid)) = 0
    /\ \E r \in Rows, c \in Cols : r >= FirstFilledRow /\ puzzleState.grid[r][c] = null

\* C10: across the cascade that follows a swap, combo increases by exactly 1
\* for each wave that resolves at least one match, it is reset to 0 as soon
\* as a settle pass finds no match, no other step changes it, and so every
\* swap is accepted with combo 0 and its first wave is scored with combo 0.
C10_ComboPerWave ==
    [][/\ WaveResolved =>
            /\ Len(findMatches(puzzleState.grid)) > 0
            /\ puzzleState'.combo = puzzleState.combo + 1
       /\ SettleFindsNone => puzzleState'.combo = 0
       /\ ~WaveResolved => puzzleState'.combo \in {0, puzzleState.combo}
       /\ SwapAccepted => puzzleState.combo = 0 /\ puzzleState'.combo = 0]_vars

\* C10 witness: the first wave of a later swap is about to be scored, the
\* earlier cascade having scored and its combo having been reset.
C10_LaterSwapFirstWave ==
    /\ pending = "animateClearing"
    /\ puzzleState.score > 0
    /\ puzzleState.combo = 0

(***************************************************************************)
(* The puzzle's functions, as the claims state them.                       *)
(***************************************************************************)
Cells == Rows \X Cols

\* Three panels of one type side by side in a row or in a column.
HasRunOfThree(grid) ==
    \E p \in Cells, d \in {<<0, 1>>, <<1, 0>>} :
        /\ InGrid(p[1] + 2 * d[1], p[2] + 2 * d[2])
        /\ \A i \in 0 .. 2 :
              /\ grid[p[1] + i * d[1]][p[2] + i * d[2]] # null
              /\ grid[p[1] + i * d[1]][p[2] + i * d[2]].type = grid[p[1]][p[2]].type

\* What a cell shows: the type and the bonus of its panel.
Shows(grid, p) == <<grid[p[1]][p[2]].type, grid[p[1]][p[2]].bonus>>

\* The grid showing the contents of a and b exchanged.
ShowsExchanged(after, before, a, b) ==
    \A p \in Cells :
        Shows(after, p) = Shows(before, IF p = a THEN b ELSE IF p = b THEN a ELSE p)

\* The last call was a trySwap with a cell selected and a 4-adjacent target.
SwapTried ==
    /\ call.op = "trySwap"
    /\ pre.selected # NoSelection
    /\ Abs(pre.selected.row - call.row) + Abs(pre.selected.col - call.col) = 1

\* C5: for any puzzle state with a selected cell and any 4-adjacent target,
\* trySwap commits the exchanged grid exactly when the post-swap grid
\* contains at least one match anywhere; otherwise it reports the swap as
\* rejected and returns the original grid unchanged with the selection
\* cleared.
C5_TrySwapCommitsIffMatch ==
    SwapTried =>
        LET a == <<pre.selected.row, pre.selected.col>>
            b == <<call.row, call.col>>
            exchanged == [r \in Rows |-> [c \in Cols |->
                            IF <<r, c>> = a THEN pre.grid[b[1]][b[2]]
                            ELSE IF <<r, c>> = b THEN pre.grid[a[1]][a[2]]
                            ELSE pre.grid[r][c]]]
        IN  IF HasRunOfThree(exchanged)
            THEN /\ call.swapped
                 /\ ShowsExchanged(puzzleState.grid, pre.grid, a, b)
            ELSE /\ ~call.swapped
                 /\ puzzleState.grid = pre.grid
                 /\ puzzleState.selected = NoSelection

\* C5 witness: a swap of two panels of a grid without a match was committed.
C5_SwapCommitted ==
    /\ SwapTried
    /\ call.swapped
    /\ ~HasRunOfThree(pre.grid)
    /\ puzzleState.grid # pre.grid

\* C9: after any sequence of createPanelPuzzle, selectPanel, trySwap,
\* swapPanels, processMatches, applyGravity and raiseRows, every panel stored
\* at grid[r][c] has stored row = r and stored col = c.
C9_PanelsStampedWithTheirPlace ==
    \A p \in Cells :
        puzzleState.grid[p[1]][p[2]] # null =>
            /\ puzzleState.grid[p[1]][p[2]].row = p[1]
            /\ puzzleState.grid[p[1]][p[2]].col = p[2]

\* C9 witness: rows were raised and then two panels of different types
\* changed places.
C9_SwappedAfterRaise ==
    /\ call.op \in {"trySwap", "swapPanels"}
    /\ \E c \in Cols : puzzleState.grid[FirstFilledRow - 1][c] # null
    /\ \E p \in Cells :
          /\ pre.grid[p[1]][p[2]] # null
          /\ puzzleState.grid[p[1]][p[2]] # null
          /\ pre.grid[p[1]][p[2]].type # puzzleState.grid[p[1]][p[2]].type

\* The bonus a match earns by its own shape and size.
BonusOfShape(match) ==
    IF match.shape \in {"L", "T"} THEN "blast"
    ELSE IF Len(match.positions) >= 5 THEN "cross"
    ELSE IF Len(match.positions) = 4
         THEN IF match.direction = "horizontal" THEN "line_h" ELSE "line_v"
         ELSE "none"

\* The pass left, on one of the match's cells, the bonus tile the match earns.
LeftItsBonus(match) ==
    BonusOfShape(match) # "none" =>
        \E k \in 1 .. Len(match.positions) :
            LET p == match.positions[k]
            IN  /\ puzzleState.grid[p[1]][p[2]] # null
                /\ puzzleState.grid[p[1]][p[2]].type = match.type
                /\ puzzleState.grid[p[1]][p[2]].bonus = BonusOfShape(match)

\* C7 as stated: in one processMatches pass every match earns its bonus tile
\* from its own shape and size (L or T gives blast, a run of 5 or more gives
\* cross, a run of exactly 4 gives a line bonus in the run's direction, a run
\* of 3 gives none), however many other matches are resolved in the pass.
C7_EveryMatchEarnsItsBonus ==
    call.op = "processMatches" =>
        LET matches == findMatches(pre.grid)
        IN  \A k \in 1 .. Len(matches) : LeftItsBonus(matches[k])

\* The cell p lies in the region cleared by the bonus b activated at `at`.
InClearRegion(b, at, p) ==
    CASE b = "line_h" -> p[1] = at[1]
      [] b = "line_v" -> p[2] = at[2]
      [] b = "cross" -> p[1] = at[1] \/ p[2] = at[2]
      [] b = "blast" -> Abs(p[1] - at[1]) <= 1 /\ Abs(p[2] - at[2]) <= 1
      [] OTHER -> FALSE

\* The bonus tiles of a grid.
BonusTiles(grid) ==
    {p \in Cells : grid[p[1]][p[2]] # null /\ grid[p[1]][p[2]].bonus # "none"}

Activated == {<<call.log[i].row, call.log[i].col>> : i \in 1 .. Len(call.log)}

\* C8: during one processMatches pass, every bonus tile lying inside the
\* clear region of an activated bonus is itself activated, as the bonus it
\* is, and each bonus position is activated exactly once, so the chain
\* finishes after at most as many activations as there are bonus tiles.
C8_ChainActivatesEachOnce ==
    call.op = "processMatches" =>
        /\ \A i \in 1 .. Len(call.log) :
              LET at == <<call.log[i].row, call.log[i].col>>
              IN  /\ at \in BonusTiles(pre.grid)
                  /\ call.log[i].bonus = pre.grid[at[1]][at[2]].bonus
                  /\ \A p \in BonusTiles(pre.grid) :
                        InClearRegion(call.log[i].bonus, at, p) => p \in Activated
        /\ \A i, j \in 1 .. Len(call.log) :
              (call.log[i].row = call.log[j].row /\ call.log[i].col = call.log[j].col)
                  => i = j
        /\ Len(call.log) <= Cardinality(BonusTiles(pre.grid))

\* C8 witness: a chain of three activations, the bonus tile of the matched
\* run reaching a tile outside the run, and that one a third tile outside
\* the first one's region.
C8_ChainOfThree ==
    /\ call.op = "processMatches"
    /\ Len(call.log) = 3
    /\ LET matched == UNION {Range(findMatches(pre.grid)[k].positions) :
                                k \in 1 .. Len(findMatches(pre.grid))}
           first == <<call.log[1].row, call.log[1].col>>
           second == <<call.log[2].row, call.log[2].col>>
           third == <<call.log[3].row, call.log[3].col>>
       IN  /\ first \in matched
           /\ second \notin matched
           /\ third \notin matched
           /\ ~InClearRegion(call.log[1].bonus, first, third)

(***************************************************************************)
(* Generated cases.                                                        *)
(***************************************************************************)
Returned == gen.pc = "returned"

\* C1: every case that generateCase returns, for any seed, suspect count
\* and difficulty, holds at least one clue that points to the killer and is
\* not a red herring.
C1_ReturnedCaseHasKillerClue ==
    Returned =>
        \E k \in 1 .. Len(gen.result.clues) :
            /\ gen.result.clues[k].pointsTo = gen.result.killer
            /\ ~gen.result.clues[k].isRedHerring

\* C1 witness: a hard case is returned that carries three red herrings next
\* to its killer clues.
C1_HardCaseReturned ==
    /\ Returned
    /\ gen.config.difficulty = "hard"
    /\ Cardinality({k \in 1 .. Len(gen.result.clues) : gen.result.clues[k].isRedHerring}) = 3

C3_KillerAlibiFalseOthersTrue ==
    Returned =>
        LET c == gen.result
        IN  /\ \A k \in 1 .. Len(c.suspects) :
                  ~c.suspects[k].isVictim =>
                      \E a \in 1 .. Len(c.alibis) : c.alibis[a].suspectId = c.suspects[k].id
            /\ \A a \in 1 .. Len(c.alibis) :
                  IF c.alibis[a].suspectId = c.killer
                  THEN c.alibis[a].isFalse /\ ~c.alibis[a].isVerifiable
                  ELSE ~c.alibis[a].isFalse /\ c.alibis[a].isVerifiable

\* C3 witness: a returned case whose killer drew the partial-alibi strategy
\* and names witnesses, beside an innocent with a weak, single-witness alibi.
C3_PartialAlibiWithWitnesses ==
    /\ Returned
    /\ gen.killerStrategy = "partial_alibi"
    /\ \E a, b \in 1 .. Len(gen.result.alibis) :
          /\ gen.result.alibis[a].suspectId = gen.result.killer
          /\ Len(gen.result.alibis[a].witnesses) > 0
          /\ gen.result.alibis[b].suspectId # gen.result.killer
          /\ Len(gen.result.alibis[b].witnesses) = 1

\* C4: in every returned case exactly one suspect is flagged as the victim,
\* exactly one as the killer, and the two are different suspects.
C4_OneVictimOneKiller ==
    Returned =>
        LET suspects == gen.result.suspects
            victims == {k \in 1 .. Len(suspects) : suspects[k].isVictim}
            killers == {k \in 1 .. Len(suspects) : suspects[k].isKiller}
        IN  /\ Cardinality(victims) = 1
            /\ Cardinality(killers) = 1
            /\ \A v \in victims, k \in killers : suspects[v].id # suspects[k].id

\* C4 witness: a case is returned after the killer index first drawn was the
\* victim's and had to be drawn again.
C4_KillerRedrawn ==
    /\ Returned
    /\ gen.redraws > 0

(***************************************************************************)
(* Scoring, legal moves, gravity and the initial grid.                     *)
(***************************************************************************)
\* B of a grid: 10 times the number of positions of every match found in it.
BaseOf(grid) ==
    LET matches == findMatches(grid)
        Sum[k \in 0 .. Len(matches)] ==
            IF k = 0 THEN 0 ELSE Sum[k - 1] + 10 * Len(matches[k].positions)
    IN  Sum[Len(matches)]

\* C11: each processMatches pass that resolves at least one match adds to
\* the score exactly floor(B * (1 + combo * 0.5)), B being the sum over the
\* resolved matches of 10 times the number of positions of the match and
\* combo the counter before the pass.  With B and combo integers, the floor
\* is the integer quotient of B * (2 + combo) by 2.
C11_PassAddsBaseTimesCombo ==
    [][WaveResolved =>
        puzzleState'.score - puzzleState.score =
            (BaseOf(puzzleState.grid) * (2 + puzzleState.combo)) \div 2]_vars

\* C11 witness: the second wave of a cascade has been resolved and scored
\* with combo 1 (a run of three then earns 45), and the panels are falling.
C11_SecondWaveScored ==
    /\ pending = "animateFalling"
    /\ puzzleState.combo = 2
    /\ puzzleState.score >= 30 + 45

\* A cell and a 4-adjacent target.
AdjacentPairs == {pq \in Cells \X Cells : isAdjacent(pq[1][1], pq[1][2], pq[2][1], pq[2][2])}

\* Some selection followed by trySwap on an adjacent target is accepted.
SomeSwapAccepted(state) ==
    \E pq \in AdjacentPairs :
        trySwap(selectPanel(state, pq[1][1], pq[1][2]), pq[2][1], pq[2][2]).swapped

\* C12: hasValidMoves returns false exactly when no cell and 4-adjacent
\* target exist whose swap produces a match, that is, exactly when no
\* selection followed by trySwap could be accepted.  Stated for the states
\* in which a panel can be selected at all (not animating, not over).
C12_NoValidMoveIffNoSwapAccepted ==
    (puzzleState # NoState /\ ~puzzleState.isAnimating /\ ~puzzleState.isGameOver) =>
        (~hasValidMoves(puzzleState) <=> ~SomeSwapAccepted(puzzleState))

\* The panels of a column from top to bottom, each as its type and bonus.
ColumnPanels(grid, col) ==
    LET rowsUsed == SelectSeq([i \in 1 .. GRID_ROWS |-> i - 1], LAMBDA r : grid[r][col] # null)
    IN  [k \in 1 .. Len(rowsUsed) |->
            [type |-> grid[rowsUsed[k]][col].type, bonus |-> grid[rowsUsed[k]][col].bonus,
             row |-> rowsUsed[k]]]

Shown(panels) == [k \in 1 .. Len(panels) |-> <<panels[k].type, panels[k].bonus>>]

\* C13: applyGravity keeps the relative top-to-bottom order of the panels
\* already present in each column, and never creates a new panel above the
\* first filled row (rows 0 to 5 of the source's grid): in every column the
\* panels after the call are some new panels, all in the filled rows,
\* followed downwards by the panels of before in their order.
C13_GravityKeepsOrder ==
    call.op = "applyGravity" =>
        \A col \in Cols :
            LET before == ColumnPanels(pre.grid, col)
                after == ColumnPanels(puzzleState.grid, col)
                new == Len(after) - Len(before)
            IN  /\ new >= 0
                /\ Shown(SubSeq(after, new + 1, Len(after))) = Shown(before)
                /\ \A k \in 1 .. new : after[k].row >= FirstFilledRow

\* C13 witness: applyGravity was called on a grid raised by one row from
\* which a wave had been cleared; a panel standing above the filled rows has
\* fallen over an empty cell.
C13_FellFromAboveFilledRows ==
    /\ call.op = "applyGravity"
    /\ \E col \in Cols, r \in 0 .. (FirstFilledRow - 1) :
          /\ pre.grid[r][col] # null
          /\ \E below \in Rows : below > r /\ pre.grid[below][col] = null
          /\ puzzleState.grid[r][col] = null

\* C14: every grid returned by createPanelPuzzle, whatever the random panel
\* draws, has the rows above the first filled row empty (rows 0 to 5 of the
\* source's grid) and no horizontal or vertical run of three or more panels
\* of one type in the filled rows.
C14_CreatedGridHasNoRun ==
    call.op = "createPanelPuzzle" =>
        /\ \A r \in 0 .. (FirstFilledRow - 1), c \in Cols : puzzleState.grid[r][c] = null
        /\ ~HasRunOfThree(puzzleState.grid)

\* The state after is the state before, except that the selection may have
\* been cleared.
SameButSelection(after, before) ==
    /\ [after EXCEPT !.selected = NoSelection] = [before EXCEPT !.selected = NoSelection]
    /\ after.selected \in {before.selected, NoSelection}

\* C15: a swap request to a non-adjacent cell, a selection of an empty cell,
\* and any selectPanel or trySwap call made while isAnimating is true return
\* the input state except possibly for the selection being cleared: grid,
\* score, combo, time and flags are unchanged.
C15_RefusedCallsKeepState ==
    puzzleState # NoState =>
        \A row \in Rows, col \in Cols :
            LET selection == selectPanel(puzzleState, row, col)
                swap == trySwap(puzzleState, row, col)
                nonAdjacent == /\ puzzleState.selected # NoSelection
                               /\ ~isAdjacent(puzzleState.selected.row, puzzleState.selected.col,
                                              row, col)
            IN  /\ puzzleState.grid[row][col] = null => SameButSelection(selection, puzzleState)
                /\ puzzleState.isAnimating => SameButSelection(selection, puzzleState)
                /\ nonAdjacent => ~swap.swapped /\ SameButSelection(swap.state, puzzleState)
                /\ puzzleState.isAnimating =>
                      ~swap.swapped /\ SameButSelection(swap.state, puzzleState)

(***************************************************************************)
(* findMatches and the bonus of a run of four.                             *)
(***************************************************************************)
\* Cell p lies in a run of three or more equal panels along direction d.
InRunAlong(grid, p, d) ==
    \E k \in 0 .. 2 :
        LET r0 == p[1] - k * d[1]
            c0 == p[2] - k * d[2]
        IN  /\ InGrid(r0, c0) /\ InGrid(r0 + 2 * d[1], c0 + 2 * d[2])
            /\ \A i \in 0 .. 2 :
                  /\ grid[r0 + i * d[1]][c0 + i * d[2]] # null
                  /\ grid[r0 + i * d[1]][c0 + i * d[2]].type = grid[p[1]][p[2]].type

\* C16: findMatches merges the horizontal and vertical runs of three or more
\* that share a cell into one compound match, and reports a run as a line
\* match of its own only if none of its cells belongs to a perpendicular run
\* of three or more; hence no cell appears in two returned matches.
C16_MatchesShareNoCell ==
    puzzleState # NoState =>
        LET matches == findMatches(puzzleState.grid)
        IN  /\ \A i, j \in 1 .. Len(matches) :
                  i # j => Range(matches[i].positions) \cap Range(matches[j].positions) = {}
            /\ \A i \in 1 .. Len(matches) :
                  /\ matches[i].direction = "horizontal" =>
                        \A p \in Range(matches[i].positions) :
                            ~InRunAlong(puzzleState.grid, p, <<1, 0>>)
                  /\ matches[i].direction = "vertical" =>
                        \A p \in Range(matches[i].positions) :
                            ~InRunAlong(puzzleState.grid, p, <<0, 1>>)

\* The only match of the grid is a horizontal run of exactly four panels.
OnlyRunOfFour(grid) ==
    LET matches == findMatches(grid)
    IN  /\ Len(matches) = 1
        /\ matches[1].direction = "horizontal"
        /\ Len(matches[1].positions) = 4

\* C17: when processMatches resolves a grid whose only match is a horizontal
\* run of exactly 4 panels, exactly one panel is left on the run's four
\* cells: it carries the bonus line_h and sits at the run's middle index
\* floor(4/2), counted from 0 at the run's left end, and the other three
\* cells are empty.
C17_RunOfFourLeavesLineBonus ==
    (call.op = "processMatches" /\ OnlyRunOfFour(pre.grid)) =>
        LET run == findMatches(pre.grid)[1].positions
            left == CHOOSE p \in Range(run) : \A q \in Range(run) : p[2] <= q[2]
        IN  \A p \in Range(run) :
                IF p[2] = left[2] + 2
                THEN /\ puzzleState.grid[p[1]][p[2]] # null
                     /\ puzzleState.grid[p[1]][p[2]].bonus = "line_h"
                     /\ puzzleState.grid[p[1]][p[2]].type = pre.grid[p[1]][p[2]].type
                ELSE puzzleState.grid[p[1]][p[2]] = null

\* C17 witness: processMatches has resolved a grid whose only match was a
\* horizontal run of four, a second painted run having been cut short of a
\* match by it.
C17_RunOfFourResolved ==
    /\ call.op = "processMatches"
    /\ OnlyRunOfFour(pre.grid)
    /\ \E p \in Cells : pre.grid[p[1]][p[2]] # null /\ puzzleState.grid[p[1]][p[2]] = pre.grid[p[1]][p[2]]

(***************************************************************************)
(* The investigation game (src/game/game_state.ts, game_reducer.ts,        *)
(* store.ts, statements.ts).  game.state is the store's state, game.action *)
(* the last action dispatched, game.pre the state it was dispatched on and *)
(* game.count the number of dispatches so far.  A case is reduced to what  *)
(* the reducer reads of it; a testimony to the statements' ids, topics,    *)
(* isLie and contradictedBy.                                               *)
(***************************************************************************)
NumGameSuspects == 3

NumGameClues == 3

NumGameLocations == 2

MaxDispatches == 4

SuspectIds == 0 .. (NumGameSuspects - 1)

ClueIds == 0 .. (NumGameClues - 1)

LocationIds == 0 .. (NumGameLocations - 1)

\* The fields of a Case the game and the testimonies read; the first suspect
\* is the victim, the first location the crime scene, the clues are the first
\* three that generateClues makes (physical, documentary, testimonial; all
\* point to the killer), the killer's alibi is false, and the one
\* relationship is the killer's with the victim, publicly known.
GameCase(killer) ==
    [suspects |-> [i \in 1 .. NumGameSuspects |-> [id |-> i - 1, isVictim |-> (i = 1),
                                                   isKiller |-> (i - 1 = killer)]],
     killer |-> killer,
     victim |-> 0,
     clues |-> [i \in 1 .. NumGameClues |->
                  createClue(i - 1,
                             IF i = 2 THEN "documentary" ELSE IF i = 3 THEN "testimonial"
                                                                      ELSE "physical",
                             0, killer, FALSE, NoId, IF i <= 2 THEN "critical" ELSE "normal")],
     alibis |-> [i \in 1 .. NumGameSuspects - 1 |->
                   createAlibi(i, 20, 0, <<>>, i # killer, i = killer)],
     relationships |-> <<createRelationship(killer, 0, "rival", -8, TRUE, FALSE)>>,
     crimeScene |-> 0,
     motive |-> MotiveType[1]]

Statement(suspectId, k, topic, isLie, contradictedBy) ==
    [id |-> <<suspectId, k>>, suspectId |-> suspectId, topic |-> topic, isLie |-> isLie,
     contradictedBy |-> contradictedBy]

\* .map(c => c.id) on the clues a filter kept.
clueIds(filtered) == [i \in 1 .. Len(filtered) |-> filtered[i].id]

generateAlibiStatement(k, suspect, alibi, generatedCase) ==
    LET contradicts(clue) == /\ clue.pointsTo = suspect.id /\ ~clue.isRedHerring
                             /\ clue.type \in {"testimonial", "physical"}
    IN  IF alibi.isFalse
        THEN Statement(suspect.id, k, "alibi", TRUE,
                       clueIds(SelectSeq(generatedCase.clues, contradicts)))
        ELSE Statement(suspect.id, k, "alibi", FALSE, <<>>)

\* The one description with the word relationship is that of the letters
\* generateClues adds for a secret relationship: a documentary clue that
\* points to nobody.
generateRelationshipStatement(k, suspect, relationship, generatedCase) ==
    LET reveals(c) == c.type = "documentary" /\ c.pointsTo = NoId
    IN  IF ~relationship.isPublicKnowledge
        THEN Statement(suspect.id, k, "relationships", TRUE,
                       clueIds(SelectSeq(generatedCase.clues, reveals)))
        ELSE Statement(suspect.id, k, "relationships", FALSE, <<>>)

\* The observation of every suspect taken as the killer's.
generateObservationStatementOfKiller(k, suspect, generatedCase) == Statement(suspect.id, k, "observations", TRUE, <<>>)

generateObservationStatement(k, suspect, generatedCase) ==
    LET contradicts(c) == c.type = "testimonial" /\ c.pointsTo = suspect.id
    IN  IF suspect.isKiller
        THEN Statement(suspect.id, k, "observations", TRUE,
                       clueIds(SelectSeq(generatedCase.clues, contradicts)))
        ELSE Statement(suspect.id, k, "observations", FALSE, <<>>)

generateSelfStatement(k, suspect, generatedCase) ==
    LET motiveClue(c) == /\ c.type = "documentary" /\ c.pointsTo = suspect.id
                         /\ c.significance = "critical"
    IN  IF suspect.isKiller
        THEN Statement(suspect.id, k, "self", TRUE,
                       clueIds(SelectSeq(generatedCase.clues, motiveClue)))
        ELSE Statement(suspect.id, k, "self", FALSE, <<>>)

\* The statements of one suspect: the alibi statement when the suspect has
\* an alibi, the statement about the victim when a relationship with the
\* victim exists, the observation and the statement about the suspect.
generateSuspectStatements(suspect, victim, alibi, relationships, generatedCase) ==
    LET aboutAlibi == IF alibi # undefined
                      THEN <<generateAlibiStatement(0, suspect, alibi, generatedCase)>>
                      ELSE <<>>
        withVictim(r) == r.to = victim.id \/ r.from = victim.id
        victimRelationship == SelectSeq(relationships, withVictim)
        aboutVictim == IF Len(victimRelationship) > 0
                       THEN <<generateRelationshipStatement(Len(aboutAlibi), suspect,
                                  victimRelationship[1], generatedCase)>>
                       ELSE <<>>
        statementIndex == Len(aboutAlibi) + Len(aboutVictim)
    IN  aboutAlibi \o aboutVictim
            \o <<generateObservationStatement(statementIndex, suspect, generatedCase),
                 generateSelfStatement(statementIndex + 1, suspect, generatedCase)>>

\* testimonies.get(suspectId), for the suspects that are not the victim.
generateTestimonies(generatedCase) ==
    LET living(s) == ~s.isVictim
        dead(s) == s.isVictim
        suspects == SelectSeq(generatedCase.suspects, living)
        victim == SelectSeq(generatedCase.suspects, dead)[1]
        suspectOf(id) == suspects[CHOOSE k \in 1 .. Len(suspects) : suspects[k].id = id]
        alibiOf(id) == LET his(a) == a.suspectId = id
                           found == SelectSeq(generatedCase.alibis, his)
                       IN  IF Len(found) > 0 THEN found[1] ELSE undefined
        relationshipsOf(id) == LET his(r) == r.from = id \/ r.to = id
                               IN  SelectSeq(generatedCase.relationships, his)
    IN  [id \in {suspects[k].id : k \in 1 .. Len(suspects)} |->
            [suspectId |-> id,
             statements |-> generateSuspectStatements(suspectOf(id), victim, alibiOf(id),
                                                      relationshipsOf(id), generatedCase)]]

\* A checkContradiction that accepts any evidence against a lie.
checkContradictionOfAnyLie(statement, evidenceId) == statement.isLie

checkContradiction(statement, evidenceId) == evidenceId \in Range(statement.contradictedBy)

createInitialPlayerKnowledge ==
    [discoveredClues |-> {}, examinedLocations |-> {}, interrogatedSuspects |-> {},
     revealedContradictions |-> {}, notes |-> {}]

NoInterrogation ==
    [suspectId |-> NoId, currentStatementIndex |-> 0, pressedStatements |-> {},
     presentedEvidence |-> {}]

NoAccusation == [accusedId |-> NoId, motive |-> "none", supportingEvidence |-> <<>>]

NoResult ==
    [won |-> FALSE, correctKiller |-> NoId, playerAccused |-> NoId, cluesFound |-> 0,
     totalClues |-> 0, contradictionsFound |-> 0, totalContradictions |-> 0]

maxMistakes == 5

initialSearchTokens == 3

createInitialGameState(generatedCase) ==
    [phase |-> "intro",
     generatedCase |-> generatedCase,
     playerKnowledge |-> createInitialPlayerKnowledge,
     currentLocation |-> generatedCase.crimeScene,
     interrogation |-> NoInterrogation,
     accusation |-> NoAccusation,
     result |-> NoResult,
     mistakeCount |-> 0,
     maxMistakes |-> maxMistakes,
     searchTokens |-> initialSearchTokens]

\* new Map([...map, [key, value]]) on a map kept as a set of <<key, value>>.
MapSet(map, key, value) == {e \in map : e[1] # key} \cup {<<key, value>>}

countTotalContradictions(testimonies) ==
    Cardinality({sk \in (DOMAIN testimonies) \X (1 .. 4) :
                    /\ sk[2] <= Len(testimonies[sk[1]].statements)
                    /\ testimonies[sk[1]].statements[sk[2]].isLie
                    /\ Len(testimonies[sk[1]].statements[sk[2]].contradictedBy) > 0})

\* The confirmed result with won always true.
GameResultAlwaysWon(state, testimonies) ==
    [won |-> TRUE,
     correctKiller |-> state.generatedCase.killer,
     playerAccused |-> state.accusation.accusedId,
     cluesFound |-> Cardinality(state.playerKnowledge.discoveredClues),
     totalClues |-> Len(state.generatedCase.clues),
     contradictionsFound |-> Cardinality(state.playerKnowledge.revealedContradictions),
     totalContradictions |-> countTotalContradictions(testimonies)]

\* The result built by CONFIRM_ACCUSATION.
GameResult(state, testimonies) ==
    [won |-> (state.accusation.accusedId = state.generatedCase.killer),
     correctKiller |-> state.generatedCase.killer,
     playerAccused |-> state.accusation.accusedId,
     cluesFound |-> Cardinality(state.playerKnowledge.discoveredClues),
     totalClues |-> Len(state.generatedCase.clues),
     contradictionsFound |-> Cardinality(state.playerKnowledge.revealedContradictions),
     totalContradictions |-> countTotalContradictions(testimonies)]

Action(type) ==
    [type |-> type, locationId |-> NoId, clueId |-> NoId, suspectId |-> NoId,
     statement |-> Statement(NoId, 0, "alibi", FALSE, <<>>), note |-> "", accusation |-> NoAccusation,
     testimonies |-> <<>>, amount |-> 0]

gameReducer(state, action) ==
    CASE action.type = "START_GAME" -> [state EXCEPT !.phase = "investigation"]
      [] action.type = "EXAMINE_LOCATION" ->
            [state EXCEPT !.currentLocation = action.locationId,
                          !.playerKnowledge.examinedLocations = @ \cup {action.locationId}]
      [] action.type = "DISCOVER_CLUE" ->
            [state EXCEPT !.playerKnowledge.discoveredClues = @ \cup {action.clueId}]
      [] action.type = "START_INTERROGATION" ->
            [state EXCEPT !.interrogation = [suspectId |-> action.suspectId,
                                             currentStatementIndex |-> 0,
                                             pressedStatements |-> {},
                                             presentedEvidence |-> {}],
                          !.playerKnowledge.interrogatedSuspects = @ \cup {action.suspectId}]
      [] action.type = "END_INTERROGATION" -> [state EXCEPT !.interrogation = NoInterrogation]
      [] action.type = "NEXT_STATEMENT" ->
            IF state.interrogation = NoInterrogation THEN state
            ELSE [state EXCEPT !.interrogation.currentStatementIndex = @ + 1]
      [] action.type = "PREVIOUS_STATEMENT" ->
            IF state.interrogation = NoInterrogation THEN state
            ELSE [state EXCEPT !.interrogation.currentStatementIndex =
                                    IF @ - 1 > 0 THEN @ - 1 ELSE 0]
      [] action.type = "PRESS_STATEMENT" ->
            IF state.interrogation = NoInterrogation THEN state
            ELSE [state EXCEPT !.interrogation.pressedStatements =
                                    @ \cup {state.interrogation.currentStatementIndex}]
      [] action.type = "PRESENT_EVIDENCE" ->
            IF state.interrogation = NoInterrogation THEN state
            ELSE IF checkContradiction(action.statement, action.clueId)
            THEN [state EXCEPT !.interrogation.presentedEvidence =
                                    MapSet(@, state.interrogation.currentStatementIndex,
                                           action.clueId),
                               !.playerKnowledge.revealedContradictions =
                                    @ \cup {action.statement.id}]
            ELSE [state EXCEPT !.mistakeCount = @ + 1]
      [] action.type = "ADD_NOTE" ->
            [state EXCEPT !.playerKnowledge.notes = MapSet(@, action.suspectId, action.note)]
      [] action.type = "START_ACCUSATION" -> [state EXCEPT !.phase = "accusation"]
      [] action.type = "SET_ACCUSATION" -> [state EXCEPT !.accusation = action.accusation]
      [] action.type = "CONFIRM_ACCUSATION" ->
            IF state.accusation = NoAccusation THEN state
            ELSE [state EXCEPT !.phase = "resolution",
                               !.result = GameResult(state, action.testimonies)]
      [] action.type = "CANCEL_ACCUSATION" ->
            [state EXCEPT !.phase = "investigation", !.accusation = NoAccusation]
      [] action.type = "ADD_SEARCH_TOKENS" ->
            [state EXCEPT !.searchTokens = @ + action.amount]
      [] action.type = "SPEND_SEARCH_TOKEN" ->
            [state EXCEPT !.searchTokens = IF @ - 1 > 0 THEN @ - 1 ELSE 0]
      [] OTHER -> state

Interrogating == game.state.interrogation # NoInterrogation

\* The statement the interrogation screen shows and passes to
\* presentEvidence: statements[min(currentIndex, length - 1)].
shownStatement ==
    LET statements == game.testimonies[game.state.interrogation.suspectId].statements
    IN  statements[Min(game.state.interrogation.currentStatementIndex, Len(statements) - 1) + 1]

otherVars == <<puzzleState, isProcessingMatches, pending, resultShown, loopRunning,
               call, pre, gen>>

InitGame ==
    /\ puzzleState = NoState
    /\ isProcessingMatches = FALSE
    /\ pending = "none"
    /\ resultShown = FALSE
    /\ loopRunning = FALSE
    /\ call = NoCall
    /\ pre = NoState
    /\ gen = NoGen
    /\ \E killer \in SuspectIds \ {0} :
          game = [pc |-> "on",
                  state |-> createInitialGameState(GameCase(killer)),
                  testimonies |-> generateTestimonies(GameCase(killer)),
                  action |-> Action("none"),
                  pre |-> createInitialGameState(GameCase(killer)),
                  count |-> 0]

\* store.dispatch(action): state = gameReducer(state, action).
dispatch(action) ==
    [game EXCEPT !.state = gameReducer(game.state, action),
                 !.action = action,
                 !.pre = game.state,
                 !.count = game.count + 1]

CanDispatch == game.pc = "on" /\ game.count < MaxDispatches

NonVictims == {s \in SuspectIds : s # game.state.generatedCase.victim}

startGame ==
    /\ CanDispatch
    /\ game' = dispatch(Action("START_GAME"))
    /\ UNCHANGED otherVars

examineLocation(locationId) ==
    /\ CanDispatch
    /\ game' = dispatch([Action("EXAMINE_LOCATION") EXCEPT !.locationId = locationId])
    /\ UNCHANGED otherVars

discoverClue(clueId) ==
    /\ CanDispatch
    /\ game' = dispatch([Action("DISCOVER_CLUE") EXCEPT !.clueId = clueId])
    /\ UNCHANGED otherVars

startInterrogation(suspectId) ==
    /\ CanDispatch
    /\ suspectId \in NonVictims
    /\ game' = dispatch([Action("START_INTERROGATION") EXCEPT !.suspectId = suspectId])
    /\ UNCHANGED otherVars

endInterrogation ==
    /\ CanDispatch
    /\ game' = dispatch(Action("END_INTERROGATION"))
    /\ UNCHANGED otherVars

nextStatement ==
    /\ CanDispatch
    /\ game' = dispatch(Action("NEXT_STATEMENT"))
    /\ UNCHANGED otherVars

previousStatement ==
    /\ CanDispatch
    /\ game' = dispatch(Action("PREVIOUS_STATEMENT"))
    /\ UNCHANGED otherVars

pressStatement ==
    /\ CanDispatch
    /\ game' = dispatch(Action("PRESS_STATEMENT"))
    /\ UNCHANGED otherVars

\* The evidence drawer of the interrogation screen: the statement shown is
\* passed with the clue.
presentEvidence(clueId) ==
    /\ CanDispatch
    /\ Interrogating
    /\ game' = dispatch([Action("PRESENT_EVIDENCE") EXCEPT !.clueId = clueId,
                                                           !.statement = shownStatement])
    /\ UNCHANGED otherVars

addNote(suspectId) ==
    /\ CanDispatch
    /\ suspectId \in NonVictims
    /\ game' = dispatch([Action("ADD_NOTE") EXCEPT !.suspectId = suspectId, !.note = "note"])
    /\ UNCHANGED otherVars

startAccusation ==
    /\ CanDispatch
    /\ game' = dispatch(Action("START_ACCUSATION"))
    /\ UNCHANGED otherVars

setAccusation(accusedId) ==
    /\ CanDispatch
    /\ accusedId \in NonVictims
    /\ game' = dispatch([Action("SET_ACCUSATION") EXCEPT !.accusation =
                            [accusedId |-> accusedId,
                             motive |-> game.state.generatedCase.motive,
                             supportingEvidence |-> <<>>]])
    /\ UNCHANGED otherVars

confirmAccusation ==
    /\ CanDispatch
    /\ game' = dispatch([Action("CONFIRM_ACCUSATION") EXCEPT !.testimonies = game.testimonies])
    /\ UNCHANGED otherVars

cancelAccusation ==
    /\ CanDispatch
    /\ game' = dispatch(Action("CANCEL_ACCUSATION"))
    /\ UNCHANGED otherVars

addSearchTokens(amount) ==
    /\ CanDispatch
    /\ game' = dispatch([Action("ADD_SEARCH_TOKENS") EXCEPT !.amount = amount])
    /\ UNCHANGED otherVars

spendSearchToken ==
    /\ CanDispatch
    /\ game' = dispatch(Action("SPEND_SEARCH_TOKEN"))
    /\ UNCHANGED otherVars

NextGame ==
    \/ startGame
    \/ \E locationId \in LocationIds : examineLocation(locationId)
    \/ \E clueId \in ClueIds : discoverClue(clueId)
    \/ \E suspectId \in SuspectIds : startInterrogation(suspectId)
    \/ endInterrogation
    \/ nextStatement
    \/ previousStatement
    \/ pressStatement
    \/ \E clueId \in ClueIds : presentEvidence(clueId)
    \/ \E suspectId \in SuspectIds : addNote(suspectId)
    \/ startAccusation
    \/ \E accusedId \in SuspectIds : setAccusation(accusedId)
    \/ confirmAccusation
    \/ cancelAccusation
    \/ \E amount \in 1 .. 1 : addSearchTokens(amount)
    \/ spendSearchToken

SpecGame == InitGame /\ [][NextGame]_vars

(***************************************************************************)
(* The investigation game, as the claims state it.                         *)
(***************************************************************************)
\* The last dispatch was of an action of this type.
Dispatched(type) == game.pc = "on" /\ game.action.type = type

\* C18: after an interrogation is started on a non-victim suspect, however
\* many times NEXT_STATEMENT is dispatched, currentStatementIndex stays at
\* no more than statements.length - 1 of that suspect's testimony (no
\* dispatch fails: every dispatch of the model returns a state).
C18_StatementIndexWithinTestimony ==
    (game.pc = "on" /\ Interrogating) =>
        game.state.interrogation.currentStatementIndex <=
            Len(game.testimonies[game.state.interrogation.suspectId].statements) - 1

\* C19: during an interrogation, presenting a clue id that is not in the
\* statement's contradictedBy list increments mistakeCount by exactly 1 and
\* changes no other part of the game state (phase, knowledge sets,
\* interrogation sub-state, accusation, result and search tokens stay).
C19_WrongEvidenceOnlyCountsMistake ==
    (/\ Dispatched("PRESENT_EVIDENCE")
     /\ game.pre.interrogation # NoInterrogation
     /\ game.action.clueId \notin Range(game.action.statement.contradictedBy)) =>
        game.state = [game.pre EXCEPT !.mistakeCount = game.pre.mistakeCount + 1]

\* C19 witness: a clue that does not contradict it has just been presented
\* against a lie, after another clue had revealed that lie's contradiction.
C19_WrongClueAgainstLie ==
    /\ Dispatched("PRESENT_EVIDENCE")
    /\ game.action.statement.isLie
    /\ game.action.clueId \notin Range(game.action.statement.contradictedBy)
    /\ game.pre.playerKnowledge.revealedContradictions # {}
    /\ game.state.mistakeCount = 1

\* C20: confirming an accusation moves the game to the resolution phase
\* with result.won true exactly when the accused id equals case.killer,
\* result.playerAccused equal to the accused id submitted and
\* result.correctKiller equal to case.killer.
C20_ConfirmedAccusationResolves ==
    (Dispatched("CONFIRM_ACCUSATION") /\ game.pre.accusation # NoAccusation) =>
        /\ game.state.phase = "resolution"
        /\ game.state.result.won <=>
              (game.pre.accusation.accusedId = game.state.generatedCase.killer)
        /\ game.state.result.playerAccused = game.pre.accusation.accusedId
        /\ game.state.result.correctKiller = game.state.generatedCase.killer

\* C20 witness: an accusation of a suspect who is not the killer has been
\* confirmed from the accusation phase, and the game is lost.
C20_WrongAccusationConfirmed ==
    /\ Dispatched("CONFIRM_ACCUSATION")
    /\ game.pre.phase = "accusation"
    /\ game.pre.accusation # NoAccusation
    /\ game.pre.accusation.accusedId # game.state.generatedCase.killer
    /\ ~game.state.result.won

(***************************************************************************)
(* Generated cases: locations, clues, the solvability check, termination.  *)
(***************************************************************************)
\* C21: in every generated case exactly one entry of case.locations has
\* isCrimeScene = true, and it is the location whose id is case.crimeScene.
C21_OneCrimeSceneLocation ==
    Returned =>
        LET locations == gen.result.locations
            scenes == {k \in 1 .. Len(locations) : locations[k].isCrimeScene}
        IN  /\ Cardinality(scenes) = 1
            /\ \A k \in scenes : locations[k].id = gen.result.crimeScene

\* The clues of a case that point to a suspect and are not red herrings.
KillerClues(caseData) ==
    {k \in 1 .. Len(caseData.clues) :
        /\ caseData.clues[k].pointsTo = caseData.killer
        /\ ~caseData.clues[k].isRedHerring}

\* C22: for each difficulty, every generated case contains at least the
\* configured minimum number of non-red-herring clues pointing to the killer:
\* 5 for easy, 4 for medium and 3 for hard.
C22_ConfiguredMinimumOfKillerClues ==
    Returned =>
        Cardinality(KillerClues(gen.result)) >= getDifficultyClueCount(gen.config.difficulty)

(***************************************************************************)
(* isCaseSolvable on cases built by hand with createCase, as the tests of  *)
(* domain/case.ts build them: a victim 0, a killer 1, an innocent 2 and up *)
(* to MaxHandClues clues.                                                  *)
(***************************************************************************)
MaxHandClues == 3

HandClues ==
    {createClue(0, "physical", 0, pointsTo, isRedHerring, NoId, "normal") :
        pointsTo \in {NoId, 1, 2}, isRedHerring \in BOOLEAN}

HandCases ==
    {createCase(0, <<>>, <<>>, <<>>, clues, <<>>, 0, 1, "greed", "poison", 0, 0) :
        clues \in UNION {[1 .. n -> HandClues] : n \in 0 .. MaxHandClues}}

InitSolvable ==
    /\ puzzleState = NoState
    /\ isProcessingMatches = FALSE
    /\ pending = "none"
    /\ resultShown = FALSE
    /\ loopRunning = FALSE
    /\ call = NoCall
    /\ pre = NoState
    /\ \E generatedCase \in HandCases : gen = [pc |-> "createCase", result |-> generatedCase]
    /\ game = NoGame

\* The check at the end of generateCase: the case is returned, or generation
\* starts over with the retry seed.
solvabilityCheck ==
    /\ gen.pc = "createCase"
    /\ gen' = [gen EXCEPT !.pc = IF isCaseSolvable(gen.result) THEN "returned" ELSE "retry"]
    /\ UNCHANGED puzzleVars

NextSolvable == solvabilityCheck

SpecSolvable == InitSolvable /\ [][NextSolvable]_vars

\* C23: the solvability check applied after generation accepts a case only if
\* at least one non-red-herring clue has pointsTo equal to the killer; a case
\* whose only killer-pointing clues are red herrings is treated as unsolvable
\* and regenerated.
C23_AcceptedOnlyWithGenuineKillerClue ==
    gen.pc = "returned" => KillerClues(gen.result) # {}

\* C24: generateCase terminates for every seed: the generated case always
\* passes the solvability check, so the recursive retry with seed + "-retry"
\* is never taken and the returned case carries the seed that was passed in.
\* (The two ways generateCase could run on are the redraw loop of
\* assignVictimAndKiller, reported as pc "hang", and the retry.)
C24_TerminatesWithoutRetry ==
    /\ gen.pc # "hang"
    /\ gen.retries = 0
    /\ gen.seed = gen.args.seed
    /\ Returned => isCaseSolvable(gen.result) /\ gen.result.seed = gen.args.seed

C24_ReturnedWithTheSeedPassedIn ==
    /\ Returned
    /\ gen.retries = 0
    /\ gen.args.seed > 0
    /\ gen.result.seed = gen.args.seed

\* C25: for every suspectCount >= 3 and every seed, generateCase completes and
\* returns a case with exactly suspectCount suspects.
C25_ReturnsSuspectCountSuspects ==
    Finished /\ gen.config.suspectCount >= 3 =>
        Returned /\ Len(gen.result.suspects) = gen.config.suspectCount

(***************************************************************************)
(* generateCase over every selection of locations: what shuffle and slice  *)
(* of generateLocations can leave is any 6 to 8 of the 19 templates, here  *)
(* one selection for each number of private rooms among them.              *)
(***************************************************************************)
PrivateTemplates == Cardinality({t \in 1 .. Len(manorLocations) : ~manorLocations[t].isPublic})

\* The selection of count templates of which the first privateCount are
\* private rooms, made into locations as generateLocations does.
selectedLocations(privateCount, count) ==
    LET chosen == [index \in 1 .. count |->
                      manorLocations[IF index <= privateCount THEN index
                                     ELSE PrivateTemplates + index - privateCount]]
    IN  [index \in 1 .. count |->
            createLocation(index - 1, chosen[index].template, chosen[index].isPublic, FALSE)]

\* generateLocations returning a given selection, with the draws it makes.
selectionStep(privateCount, count) ==
    /\ gen.pc = "generateLocations"
    /\ gen' = [gen EXCEPT !.pc = "generateSuspects",
                          !.locations = selectedLocations(privateCount, count),
                          !.random = generateLocations(gen.random).random]
    /\ UNCHANGED puzzleVars

NextSelections ==
    \/ \E seed \in Seeds : generateCase(seed, defaultConfig)
    \/ \E count \in 6 .. 8 : \E privateCount \in 0 .. Min(PrivateTemplates, count) : selectionStep(privateCount, count)
    \/ suspectsStep
    \/ assignStep
    \/ selectStep
    \/ relationshipsStep
    \/ cluesStep
    \/ alibisStep
    \/ createCaseStep

SpecSelections == InitGen /\ [][NextSelections]_vars

\* C26: during generateCase, for every seed and every selection of 6 to 8
\* locations, pick is never called on an empty collection; every list a
\* generator picks from (public locations for innocent alibis, other
\* suspects, location lists) is non-empty at the call.
C26_PickNeverOnEmptyList ==
    /\ gen.pc \in {"select", "generateClues", "generateAlibis"} => Len(gen.locations) > 0
    /\ gen.pc = "generateAlibis" =>
           /\ Len(gen.others) > 0
           /\ Len(publicOf(gen.locations)) > 0
    /\ gen.pc = "threw" => gen.threw # "TypeError"

(***************************************************************************)
(* Generated cases: the relationship graph.                                *)
(***************************************************************************)
\* C27: every relationship in a generated graph that is not public knowledge
\* (isPublicKnowledge = false) carries a secretReason.
C27_SecretRelationshipsCarryReason ==
    Returned =>
        \A k \in 1 .. Len(gen.result.relationships) :
            ~gen.result.relationships[k].isPublicKnowledge =>
                gen.result.relationships[k].secretReason

\* C28: in every generated relationship graph with at least 3 suspects, every
\* suspect, including the victim and the killer, is an endpoint of at least
\* minConnectionsPerPerson (default 2) relationships.
C28_EverySuspectConnected ==
    Returned /\ Len(gen.result.suspects) >= 3 =>
        \A k \in 1 .. Len(gen.result.suspects) :
            connectionCount(gen.result.relationships, gen.result.suspects[k].id)
                >= minConnectionsPerPerson

\* A graph of MaxSuspects suspects: steps 1 and 2 reach at most five of them.
C28_ConnectionsWereAdded ==
    /\ Returned
    /\ Len(gen.result.suspects) = MaxSuspects
    /\ \E k \in 1 .. Len(gen.result.suspects) :
           /\ ~exists(gen.result.relationships, gen.result.suspects[k].id, gen.result.victim)
           /\ connectionCount(gen.result.relationships, gen.result.suspects[k].id)
                  = minConnectionsPerPerson

(***************************************************************************)
(* The testimonies of generated cases (main.ts): generateCase(seed), then  *)
(* generateTestimonies on the case it returned.  game keeps the case and   *)
(* the testimonies made from it.                                           *)
(***************************************************************************)
testimoniesStep ==
    /\ Returned
    /\ game = NoGame
    /\ game' = [pc |-> "testimonies", generatedCase |-> gen.result,
                testimonies |-> generateTestimonies(gen.result)]
    /\ UNCHANGED <<puzzleState, isProcessingMatches, pending, resultShown, loopRunning, call, pre, gen>>

NextTestimonies ==
    \/ \E seed \in Seeds, config \in Configs : generateCase(seed, config)
    \/ locationsStep
    \/ suspectsStep
    \/ assignStep
    \/ selectStep
    \/ relationshipsStep
    \/ cluesStep
    \/ alibisStep
    \/ createCaseStep
    \/ testimoniesStep

SpecTestimonies == InitGen /\ [][NextTestimonies]_vars

Testified == game.pc = "testimonies"

\* The innocents of the case the testimonies were made from.
Innocents == {id \in DOMAIN game.testimonies : id # game.generatedCase.killer}

\* The statements of a suspect that are lies.
Lies(id) ==
    {k \in 1 .. Len(game.testimonies[id].statements) : game.testimonies[id].statements[k].isLie}

\* The suspect has a relationship with the victim that is not public.
SecretlyRelatedToVictim(id) ==
    \E k \in 1 .. Len(game.generatedCase.relationships) :
        LET r == game.generatedCase.relationships[k]
        IN  /\ {r.from, r.to} = {id, game.generatedCase.victim}
            /\ ~r.isPublicKnowledge

\* C29: in every generated testimony, a statement of an innocent suspect is a
\* lie only if it is that suspect's relationship statement and the
\* relationship to the victim is not public; every alibi, observation and
\* self statement of an innocent is truthful, so an innocent has at most one
\* lie.
C29_InnocentLiesOnlyAboutSecretRelationship ==
    Testified =>
        \A id \in Innocents :
            /\ \A k \in Lies(id) :
                   /\ game.testimonies[id].statements[k].topic = "relationships"
                   /\ SecretlyRelatedToVictim(id)
            /\ Cardinality(Lies(id)) <= 1
            /\ {"alibi", "observations", "self"} \subseteq
                   {game.testimonies[id].statements[k].topic :
                       k \in 1 .. Len(game.testimonies[id].statements)}

\* C29 witness: an innocent of a generated case lies about the victim, and
\* another innocent of that case does not lie at all.
C29_InnocentHidesRelationship ==
    /\ Testified
    /\ \E id \in Innocents : Cardinality(Lies(id)) = 1 /\ SecretlyRelatedToVictim(id)
    /\ \E id \in Innocents : Lies(id) = {}

(***************************************************************************)
(* The puzzle functions called with any coordinates and deltas: one step   *)
(* outside the grid on each side stands for every row and column outside   *)
(* it (a target farther away is not adjacent to any cell).  call.op is the *)
(* name of the exception when the call did not return.                     *)
(***************************************************************************)
AnyRows == -1 .. GRID_ROWS

AnyCols == -1 .. GRID_COLS

callTrySwapAnywhere(row, col) ==
    /\ call.op # "none"
    /\ LET result == trySwap(puzzleState, row, col)
       IN  Called(IF result.threw # "" THEN result.threw ELSE "trySwap", row, col,
                  result.swapped, <<>>, result.state)

callTick(delta) ==
    /\ call.op # "none"
    /\ Called("tick", -1, -1, FALSE, <<>>, tick(puzzleState, delta))

NextAnywhere ==
    \/ \E s \in Streams : callCreatePanelPuzzle(s)
    \/ \E row \in AnyRows, col \in AnyCols : callSelectPanel(row, col)
    \/ \E row \in AnyRows, col \in AnyCols : callTrySwapAnywhere(row, col)
    \/ callProcessMatches
    \/ \E s \in Streams : callApplyGravity(s)
    \/ \E delta \in -MaxDelta .. MaxDelta : callTick(delta)

SpecAnywhere == InitApi /\ [][NextAnywhere]_vars

\* C30: every puzzle transition function (selectPanel, trySwap,
\* processMatches, applyGravity, tick) is total: for every state and every
\* integer row/column or delta input, including coordinates outside the
\* 12x6 grid, it returns a state and never fails.
C30_EveryCallReturns ==
    call.op \in {"none", "createPanelPuzzle", "selectPanel", "trySwap", "processMatches",
                 "applyGravity", "tick"}

(***************************************************************************)
(* Persistence (src/game/persistence.ts) and the start of the page         *)
(* (main.ts).  A seed is named by the killer of the case generateCase      *)
(* makes from it.  What localStorage holds is unavailable (getItem         *)
(* throws), empty, text that is no JSON, or a JSON object, kept as the     *)
(* shape of what loadGame reads of it: playerKnowledge is missing, lacks   *)
(* its notes array or is whole; interrogation is null, lacks its           *)
(* presentedEvidence array or is whole; phase is a phase or "undefined",   *)
(* seed a seed or NoId for undefined.                                      *)
(***************************************************************************)
GamePhase == {"intro", "investigation", "accusation", "resolution"}

GameSeeds == SuspectIds \ {0}

NoSavedGame == [savedGame |-> "null"]

JsonPayloads ==
    [kind : {"json"}, playerKnowledge : {"missing", "noNotes", "ok"},
     interrogation : {"null", "noPresentedEvidence", "ok"},
     phase : GamePhase \cup {"undefined"}, seed : GameSeeds \cup {NoId},
     mistakeCount : {0}]

Payloads == {[kind |-> "unavailable"], [kind |-> "empty"], [kind |-> "garbage"]} \cup JsonPayloads

\* The payload saveGame writes for a state and a seed.
saveGame(state, seed) ==
    [kind |-> "json", playerKnowledge |-> "ok",
     interrogation |-> IF state.interrogation = NoInterrogation THEN "null" ELSE "ok",
     phase |-> state.phase, seed |-> seed, mistakeCount |-> state.mistakeCount]

\* The state loadGame builds from a JSON object whose arrays it could map:
\* every other field is copied as it is found.
loadedState(serialized) ==
    [createInitialGameState(GameCase(IF serialized.seed = NoId THEN 1 ELSE serialized.seed))
        EXCEPT !.phase = serialized.phase, !.mistakeCount = serialized.mistakeCount]

\* loadGame: NoSavedGame for no item and for every exception caught
\* (getItem, JSON.parse, a property read of undefined).
loadGame(storage) ==
    IF storage.kind \in {"unavailable", "empty", "garbage"} THEN NoSavedGame
    ELSE IF storage.playerKnowledge \in {"missing", "noNotes"} THEN NoSavedGame
    ELSE IF storage.interrogation = "noPresentedEvidence" THEN NoSavedGame
    ELSE [state |-> loadedState(storage), seed |-> storage.seed]

InitBoot ==
    /\ puzzleState = NoState
    /\ isProcessingMatches = FALSE
    /\ pending = "none"
    /\ resultShown = FALSE
    /\ loopRunning = FALSE
    /\ call = NoCall
    /\ pre = NoState
    /\ gen = NoGen
    /\ \E storage \in Payloads, url \in GameSeeds \cup {NoId} :
          game = [pc |-> "boot", storage |-> storage, url |-> url]

\* main.ts at load: the saved game, the seed (from the URL, else from the
\* saved game, else a new one), the case and the store.
startup(now) ==
    /\ game.pc = "boot"
    /\ LET savedGame == loadGame(game.storage)
           seed == IF game.url # NoId THEN game.url
                   ELSE IF savedGame # NoSavedGame /\ savedGame.seed # NoId
                   THEN savedGame.seed ELSE now
           generatedCase == GameCase(seed)
           adopted == savedGame # NoSavedGame /\ savedGame.seed = seed
           state == IF adopted THEN savedGame.state
                    ELSE createInitialGameState(generatedCase)
       IN  game' = [pc |-> "on", state |-> state,
                    testimonies |-> generateTestimonies(generatedCase),
                    action |-> Action("none"), pre |-> state, count |-> 0,
                    storage |-> game.storage, seed |-> seed, adopted |-> adopted]
    /\ UNCHANGED otherVars

NextBoot == \E now \in GameSeeds : startup(now)

SpecBoot == InitBoot /\ [][NextBoot]_vars

\* The stored payload is not one saveGame writes: no JSON, or a JSON object
\* with a part missing.
Corrupt(storage) ==
    \/ storage.kind = "garbage"
    \/ /\ storage.kind = "json"
       /\ \/ storage.playerKnowledge # "ok"
          \/ storage.interrogation = "noPresentedEvidence"
          \/ storage.phase = "undefined"
          \/ storage.seed = NoId

\* C31: whenever storage is unavailable or the stored payload is corrupt,
\* loading degrades to no saved game: loadGame returns null, no failure
\* propagates, and the game starts from a fresh initial state for the seed
\* instead of adopting a malformed saved state.
C31_CorruptSaveIsNotAdopted ==
    (game.pc = "on" /\ (game.storage.kind = "unavailable" \/ Corrupt(game.storage))) =>
        /\ loadGame(game.storage) = NoSavedGame
        /\ game.state = createInitialGameState(GameCase(game.seed))

(***************************************************************************)
(* The investigation game: phases, accusations, mistakes.                  *)
(***************************************************************************)
\* The phase changes of the game flow.
PhaseMoves ==
    {<<"intro", "investigation">>, <<"investigation", "accusation">>,
     <<"accusation", "resolution">>, <<"accusation", "investigation">>}

\* C32: the game phase only moves along intro -> investigation -> accusation
\* -> resolution, plus accusation -> investigation on cancel; resolution is
\* entered only by confirming an accusation made in the accusation phase and
\* no action ever leaves it.
C32_PhaseFollowsGameFlow ==
    (game.pc = "on" /\ game.action.type # "none") =>
        /\ game.state.phase # game.pre.phase =>
               <<game.pre.phase, game.state.phase>> \in PhaseMoves
        /\ (game.state.phase = "resolution" /\ game.pre.phase # "resolution") =>
               game.action.type = "CONFIRM_ACCUSATION"
        /\ game.pre.phase = "resolution" => game.state.phase = "resolution"

(***************************************************************************)
(* The puzzle's selection, swap and clock called in any order, the clock   *)
(* advancing by up to the whole time limit in one call.                    *)
(***************************************************************************)
callTickUpToLimit(delta) ==
    /\ call.op # "none"
    /\ Called("tick", -1, -1, FALSE, <<>>, tick(puzzleState, delta))

NextOver ==
    \/ \E s \in Streams : callCreatePanelPuzzle(s)
    \/ \E row \in Rows, col \in Cols : callSelectPanel(row, col)
    \/ \E row \in Rows, col \in Cols : callTrySwap(row, col)
    \/ \E delta \in 0 .. TimeLimit : callTickUpToLimit(delta)

SpecOver == InitApi /\ [][NextOver]_vars

\* C33: once a puzzle state has isGameOver = true, no later operation
\* changes its grid or score: selectPanel, trySwap and tick leave them as
\* they are.
C33_GameOverFreezesGridAndScore ==
    (pre.isGameOver /\ call.op \in {"selectPanel", "trySwap", "tick"}) =>
        /\ puzzleState.grid = pre.grid
        /\ puzzleState.score = pre.score

(***************************************************************************)
(* The game's screens (main.ts): each screen offers the actions of its     *)
(* phase, the press and evidence buttons dispatch after a delay, the       *)
(* puzzle reports its tokens when it is closed, and every dispatch runs    *)
(* the autosave subscriber and then render.  game.timers holds the         *)
(* callbacks scheduled and not yet run, game.fired the callback the last   *)
(* step ran, game.storage the item kept in localStorage, game.count the    *)
(* number of handlers and callbacks that dispatched.                       *)
(***************************************************************************)
MaxEvents == 10

MaxTimers == 1

Timer(type, suspectId, index, clueId, statement) ==
    [type |-> type, suspectId |-> suspectId, index |-> index, clueId |-> clueId,
     statement |-> statement]

NoTimer == Timer("none", NoId, 0, NoId, Statement(NoId, 0, "alibi", FALSE, <<>>))

clearSave == [kind |-> "empty"]

\* The autosave subscriber: a state in resolution is not saved.
autosave(state, seed, storage) ==
    IF state.phase # "resolution" THEN saveGame(state, seed) ELSE storage

\* A renderResolution that leaves the save in place.
renderResolutionKeepingSave(storage) == storage

\* renderResolution clears the save.
renderResolution(storage) == clearSave

\* render: what it does to the stored item.
render(state, storage) ==
    IF state.phase = "resolution" THEN renderResolution(storage) ELSE storage

\* store.dispatch(action) with the two subscribers of main.ts, in the order
\* they subscribed: autosave, then render.
dispatchOn(g, action) ==
    LET state == gameReducer(g.state, action)
    IN  [g EXCEPT !.state = state, !.action = action, !.pre = g.state,
                  !.count = g.count + 1, !.fired = NoTimer,
                  !.storage = render(state, autosave(state, g.seed, g.storage))]

InitScreens ==
    /\ puzzleState = NoState
    /\ isProcessingMatches = FALSE
    /\ pending = "none"
    /\ resultShown = FALSE
    /\ loopRunning = FALSE
    /\ call = NoCall
    /\ pre = NoState
    /\ gen = NoGen
    /\ \E seed \in GameSeeds :
          game = [pc |-> "on",
                  state |-> createInitialGameState(GameCase(seed)),
                  testimonies |-> generateTestimonies(GameCase(seed)),
                  action |-> Action("none"),
                  pre |-> createInitialGameState(GameCase(seed)),
                  count |-> 0, seed |-> seed, storage |-> clearSave,
                  timers |-> {}, fired |-> NoTimer]

\* The screen render draws for the state.
Screen ==
    IF game.state.phase = "investigation" /\ Interrogating THEN "interrogation"
    ELSE game.state.phase

CanAct == game.pc = "on" /\ game.count < MaxEvents

\* min(currentIndex, length - 1): the index of the statement shown.
shownIndex ==
    Min(game.state.interrogation.currentStatementIndex,
        Len(game.testimonies[game.state.interrogation.suspectId].statements) - 1)

hasContradicted == shownStatement.id \in game.state.playerKnowledge.revealedContradictions

isPressing ==
    game.state.interrogation.currentStatementIndex \in game.state.interrogation.pressedStatements

currentLocationClues ==
    SelectSeq(game.state.generatedCase.clues,
              LAMBDA c : /\ c.foundAt = game.state.currentLocation
                         /\ c.id \notin game.state.playerKnowledge.discoveredClues)

\* Intro: the start button, Enter or Space.
clickStart ==
    /\ CanAct /\ Screen = "intro"
    /\ game' = dispatchOn(game, Action("START_GAME"))
    /\ UNCHANGED otherVars

clickSuspectCard(suspectId) ==
    /\ CanAct /\ Screen = "investigation"
    /\ suspectId \in NonVictims
    /\ game' = dispatchOn(game, [Action("START_INTERROGATION") EXCEPT !.suspectId = suspectId])
    /\ UNCHANGED otherVars

clickLocationCard(locationId) ==
    /\ CanAct /\ Screen = "investigation"
    /\ game' = dispatchOn(game, [Action("EXAMINE_LOCATION") EXCEPT !.locationId = locationId])
    /\ UNCHANGED otherVars

\* The search button: a token is spent and the first clue of the location
\* is discovered.
clickSearch ==
    /\ CanAct /\ Screen = "investigation"
    /\ Len(currentLocationClues) > 0 /\ game.state.searchTokens > 0
    /\ game' = [dispatchOn(dispatchOn(game, Action("SPEND_SEARCH_TOKEN")),
                           [Action("DISCOVER_CLUE") EXCEPT !.clueId = currentLocationClues[1].id])
                    EXCEPT !.count = game.count + 1]
    /\ UNCHANGED otherVars

\* The mini-game button opens the puzzle; its callback runs when the puzzle
\* is closed.
clickEarnTokens ==
    /\ CanAct /\ Screen = "investigation"
    /\ Len(currentLocationClues) = 0 \/ game.state.searchTokens = 0
    /\ Cardinality(game.timers) < MaxTimers
    /\ game' = [game EXCEPT !.timers = @ \cup {Timer("puzzle", NoId, 0, NoId, NoTimer.statement)},
                            !.fired = NoTimer]
    /\ UNCHANGED otherVars

\* The accusation button is disabled with fewer than 3 discovered clues.
clickAccuse ==
    /\ CanAct /\ Screen = "investigation"
    /\ Cardinality(game.state.playerKnowledge.discoveredClues) >= 3
    /\ game' = dispatchOn(game, Action("START_ACCUSATION"))
    /\ UNCHANGED otherVars

clickEndInterrogation ==
    /\ CanAct /\ Screen = "interrogation"
    /\ game' = dispatchOn(game, Action("END_INTERROGATION"))
    /\ UNCHANGED otherVars

\* ArrowRight or D.
keyNextStatement ==
    /\ CanAct /\ Screen = "interrogation"
    /\ game' = dispatchOn(game, Action("NEXT_STATEMENT"))
    /\ UNCHANGED otherVars

\* ArrowLeft or A.
keyPreviousStatement ==
    /\ CanAct /\ Screen = "interrogation"
    /\ game' = dispatchOn(game, Action("PREVIOUS_STATEMENT"))
    /\ UNCHANGED otherVars

\* The press button: pressStatement is dispatched 800 ms later.
clickPress ==
    /\ CanAct /\ Screen = "interrogation"
    /\ ~isPressing /\ ~hasContradicted
    /\ Cardinality(game.timers) < MaxTimers
    /\ game' = [game EXCEPT !.timers = @ \cup {Timer("press", game.state.interrogation.suspectId,
                                                     shownIndex, NoId, shownStatement)},
                            !.fired = NoTimer]
    /\ UNCHANGED otherVars

\* A card of the evidence drawer: presentEvidence(clueId, statement) is
\* dispatched 1400 ms later with the statement of the render.
clickEvidenceCard(clueId) ==
    /\ CanAct /\ Screen = "interrogation"
    /\ ~hasContradicted
    /\ clueId \in game.state.playerKnowledge.discoveredClues
    /\ Cardinality(game.timers) < MaxTimers
    /\ game' = [game EXCEPT !.timers = @ \cup {Timer("evidence", game.state.interrogation.suspectId,
                                                     shownIndex, clueId, shownStatement)},
                            !.fired = NoTimer]
    /\ UNCHANGED otherVars

\* A scheduled callback runs, whatever the screen is by then.
timerFires(timer) ==
    /\ CanAct
    /\ timer \in game.timers
    /\ LET action == CASE timer.type = "press" -> Action("PRESS_STATEMENT")
                       [] timer.type = "evidence" ->
                             [Action("PRESENT_EVIDENCE") EXCEPT !.clueId = timer.clueId,
                                                                !.statement = timer.statement]
                       [] OTHER -> [Action("ADD_SEARCH_TOKENS") EXCEPT !.amount = 1]
       IN  game' = [dispatchOn(game, action) EXCEPT !.timers = game.timers \ {timer},
                                                    !.fired = timer]
    /\ UNCHANGED otherVars

clickCancelAccusation ==
    /\ CanAct /\ Screen = "accusation"
    /\ game' = dispatchOn(game, Action("CANCEL_ACCUSATION"))
    /\ UNCHANGED otherVars

\* The confirm button: setAccusation of the form, then confirmAccusation.
clickConfirmAccusation(accusedId) ==
    /\ CanAct /\ Screen = "accusation"
    /\ accusedId \in NonVictims
    /\ game' = [dispatchOn(dispatchOn(game, [Action("SET_ACCUSATION") EXCEPT !.accusation =
                                                 [accusedId |-> accusedId,
                                                  motive |-> game.state.generatedCase.motive,
                                                  supportingEvidence |-> <<>>]]),
                           [Action("CONFIRM_ACCUSATION") EXCEPT !.testimonies = game.testimonies])
                    EXCEPT !.count = game.count + 1]
    /\ UNCHANGED otherVars

NextScreens ==
    \/ clickStart
    \/ \E suspectId \in SuspectIds : clickSuspectCard(suspectId)
    \/ \E locationId \in LocationIds : clickLocationCard(locationId)
    \/ clickSearch
    \/ clickEarnTokens
    \/ clickAccuse
    \/ clickEndInterrogation
    \/ keyNextStatement
    \/ keyPreviousStatement
    \/ clickPress
    \/ \E clueId \in ClueIds : clickEvidenceCard(clueId)
    \/ \E timer \in game.timers : timerFires(timer)
    \/ clickCancelAccusation
    \/ \E accusedId \in SuspectIds : clickConfirmAccusation(accusedId)

SpecScreens == InitScreens /\ [][NextScreens]_vars

\* C34: a press or an evidence presentation started on a displayed statement
\* is recorded against that same statement: the index added to
\* pressedStatements or keyed in presentedEvidence is the index of the
\* statement shown at the click, whatever navigation or end/start of an
\* interrogation happens before the delayed dispatch.
C34_RecordedAgainstStatementShown ==
    /\ game.fired.type = "press" =>
          /\ game.state.interrogation.suspectId = game.fired.suspectId
          /\ game.state.interrogation.pressedStatements =
                 game.pre.interrogation.pressedStatements \cup {game.fired.index}
    /\ (game.fired.type = "evidence"
          /\ checkContradiction(game.fired.statement, game.fired.clueId)) =>
          /\ game.state.interrogation.suspectId = game.fired.suspectId
          /\ <<game.fired.index, game.fired.clueId>> \in game.state.interrogation.presentedEvidence

(***************************************************************************)
(* Puzzle sessions opened one after another (main.ts): closePuzzle ends a  *)
(* session without cancelling the timeouts it scheduled, and a later       *)
(* showPanelPuzzle starts a session on the same module variables.          *)
(* game.stale holds the callbacks scheduled by closed sessions, or by such *)
(* callbacks, that have not run yet.                                       *)
(***************************************************************************)
MaxSessions == 2

\* The streams of draws a session's puzzle is created with.
NumSessionStreams == 2

SessionStreams == 0 .. (NumSessionStreams - 1)

InitSessions ==
    /\ puzzleState = NoState
    /\ isProcessingMatches = FALSE
    /\ pending = "none"
    /\ resultShown = FALSE
    /\ loopRunning = FALSE
    /\ call = NoCall
    /\ pre = NoState
    /\ gen = NoGen
    /\ game = [pc |-> "sessions", stale |-> {}, opened |-> 0]

\* showPanelPuzzle for the next session: the puzzle is created, the lock is
\* reset and the frame loop started.
openSession(s) ==
    /\ puzzleState = NoState
    /\ game.opened < MaxSessions
    /\ puzzleState' = createPanelPuzzle(TargetScore, TimeLimit, s)
    /\ isProcessingMatches' = FALSE
    /\ loopRunning' = TRUE
    /\ game' = [game EXCEPT !.opened = @ + 1]
    /\ UNCHANGED <<pending, resultShown, call, pre, gen>>

\* closePuzzle (the skip button, or the done button of the result): the
\* frame loop is cancelled and the overlay removed; pending timeouts stay.
closePuzzle ==
    /\ puzzleState # NoState
    /\ puzzleState' = NoState
    /\ isProcessingMatches' = FALSE
    /\ loopRunning' = FALSE
    /\ resultShown' = FALSE
    /\ pending' = "none"
    /\ game' = [game EXCEPT !.stale = IF pending = "none" THEN @ ELSE @ \cup {pending}]
    /\ UNCHANGED <<call, pre, gen>>

Rescheduled(kind, next) == [game EXCEPT !.stale = (@ \ {kind}) \cup next]

\* processPuzzleStep run by a timeout of a closed session.
staleProcessPuzzleStep ==
    /\ "processPuzzleStep" \in game.stale
    /\ IF puzzleState = NoState
       THEN /\ isProcessingMatches' = FALSE
            /\ game' = Rescheduled("processPuzzleStep", {})
            /\ UNCHANGED puzzleState
       ELSE IF Len(findMatches(puzzleState.grid)) > 0
       THEN /\ game' = Rescheduled("processPuzzleStep", {"animateClearing"})
            /\ UNCHANGED <<puzzleState, isProcessingMatches>>
       ELSE /\ puzzleState' = settled(puzzleState)
            /\ isProcessingMatches' = FALSE
            /\ game' = Rescheduled("processPuzzleStep", {})
    /\ UNCHANGED <<pending, resultShown, loopRunning, call, pre, gen>>

\* The callback of animateClearing run for a closed session.
staleAfterClearing(s) ==
    /\ "animateClearing" \in game.stale
    /\ IF puzzleState = NoState
       THEN /\ isProcessingMatches' = FALSE
            /\ game' = Rescheduled("animateClearing", {})
            /\ UNCHANGED puzzleState
       ELSE LET resolved == processMatches(puzzleState)
            IN  IF isGameWon(resolved)
                THEN /\ puzzleState' = [resolved EXCEPT !.isGameOver = TRUE]
                     /\ isProcessingMatches' = FALSE
                     /\ game' = Rescheduled("animateClearing", {"showPuzzleGameOver"})
                ELSE /\ puzzleState' = applyGravity(resolved, s)
                     /\ game' = Rescheduled("animateClearing", {"animateFalling"})
                     /\ UNCHANGED isProcessingMatches
    /\ UNCHANGED <<pending, resultShown, loopRunning, call, pre, gen>>

\* The callback of animateFalling run for a closed session.
staleAfterFalling ==
    /\ "animateFalling" \in game.stale
    /\ game' = Rescheduled("animateFalling", {"processPuzzleStep"})
    /\ UNCHANGED <<puzzleState, isProcessingMatches, pending, resultShown, loopRunning, call, pre, gen>>

\* The delayed showPuzzleGameOver of a closed session.
staleShowPuzzleGameOver ==
    /\ "showPuzzleGameOver" \in game.stale
    /\ resultShown' = (puzzleState # NoState \/ resultShown)
    /\ game' = Rescheduled("showPuzzleGameOver", {})
    /\ UNCHANGED <<puzzleState, isProcessingMatches, pending, loopRunning, call, pre, gen>>

StaleCallback ==
    \/ staleProcessPuzzleStep
    \/ \E s \in Streams : staleAfterClearing(s)
    \/ staleAfterFalling
    \/ staleShowPuzzleGameOver

\* A click in the open session.  Followed up to the point where a swap is
\* accepted while a timeout of the session's cascade is still pending (which
\* takes a callback of a closed session to have cleared the lock).
sessionGridClick(row, col) ==
    /\ handleGridClick(row, col)
    /\ pending = "none" \/ pending' = pending

NextSessions ==
    \/ \E s \in SessionStreams : openSession(s)
    \/ \E delta \in 0 .. MaxDelta : gameLoop(delta)
    \/ \E row \in Rows, col \in Cols : sessionGridClick(row, col)
    \/ processPuzzleStep
    \/ \E s \in Streams : afterClearing(s)
    \/ afterFalling
    \/ showPuzzleGameOver
    \/ closePuzzle
    \/ StaleCallback

SpecSessions == InitSessions /\ [][NextSessions]_vars

\* A cascade is being processed: a swap was accepted in the open session and
\* one of the cascade's timeouts is pending.
CascadeInProgress ==
    puzzleState # NoState /\ pending \in {"processPuzzleStep", "animateClearing", "animateFalling"}

\* The cascade's own steps.
CascadeStep == processPuzzleStep \/ (\E s \in Streams : afterClearing(s)) \/ afterFalling

\* C35: while a cascade is being processed (from an accepted swap until the
\* settle pass or the win), the puzzle state is modified only by the
\* cascade's own steps: grid clicks are ignored and timer ticks do not change
\* the remaining time.
C35_OnlyCascadeStepsModifyState ==
    [][(CascadeInProgress /\ puzzleState' # puzzleState /\ puzzleState' # NoState)
           => CascadeStep]_vars

\* C36: timer callbacks scheduled by a puzzle session that has since been
\* closed (pending cascade steps and the delayed game-over display) never
\* modify, unlock or end a puzzle session opened later.
C36_StaleCallbacksLeaveLaterSessionAlone ==
    [][(StaleCallback /\ puzzleState # NoState)
           => /\ puzzleState' = puzzleState
              /\ isProcessingMatches' = isProcessingMatches
              /\ resultShown' = resultShown]_vars

(***************************************************************************)
(* A session in which every timeout of the cascade runs when it is due:    *)
(* setTimeout and the animation callbacks always fire.  A pending timeout  *)
(* that runs is a step that replaces pending.                              *)
(***************************************************************************)
Timeouts == {"none", "processPuzzleStep", "animateClearing", "animateFalling", "showPuzzleGameOver"}

TimeoutRuns == pending # "none" /\ pending' \in Timeouts

SpecFair == Spec /\ WF_pending(TimeoutRuns)

\* C37: after every accepted swap the cascade of processMatches/applyGravity
\* waves ends after finitely many waves, whatever panels the refills draw:
\* a settle pass finds no match or the target score is reached, and in both
\* cases the host stops processing (isProcessingMatches becomes false).
C37_CascadeEnds == isProcessingMatches ~> ~isProcessingMatches

\* A cascade that scored has settled and the session goes on.
C37_SettledAfterScoring ==
    /\ puzzleState # NoState /\ ~isProcessingMatches /\ pending = "none"
    /\ puzzleState.score > 0 /\ ~puzzleState.isGameOver

\* canMakeAccusation: at least 3 clues are discovered.
canMakeAccusation(state) == Cardinality(state.playerKnowledge.discoveredClues) >= 3

\* C38: the game enters the accusation phase only when at least 3 clues have
\* been discovered.
C38_AccusationNeedsThreeClues ==
    (game.pc = "on" /\ game.state.phase = "accusation" /\ game.pre.phase # "accusation") =>
        canMakeAccusation(game.state)

\* C39: in every reachable game state mistakeCount is at most maxMistakes
\* (5), for any sequence of evidence presentations.
C39_MistakesWithinMaximum ==
    game.pc = "on" => game.state.mistakeCount <= game.state.maxMistakes

\* C40: once the game reaches the resolution phase the stored save is
\* cleared, and no later event (including delayed dispatches that were
\* scheduled before the resolution) writes a save again.
C40_NoSaveInResolution ==
    (game.pc = "on" /\ game.state.phase = "resolution") => game.storage = clearSave

\* A press or an evidence presentation scheduled before the resolution has
\* been dispatched after it.
C40_DelayedDispatchAfterResolution ==
    /\ game.pc = "on" /\ game.state.phase = "resolution" /\ game.pre.phase = "resolution"
    /\ game.fired.type \in {"press", "evidence"}

====
